---- MODULE Spec2Model ----
(***************************************************************************)
(* A model of kylelemons/rplacemap: the sharded ingestion coordinator      *)
(* (dataset.Download), the one-shot Future and its After combinator        *)
(* (internal/gsync), and the tile renderer (tiles.Handler, window.At).     *)
(*                                                                         *)
(* The specifications share the module's variables; each leaves the        *)
(* variables of the others at their initial value:                         *)
(*   SpecDownload  - shard tasks, the channels and the coordinator's select *)
(*   SpecFuture    - main's loader, After's goroutine and Wait callers      *)
(*   SpecFutureFair- the same with the scheduler's fairness                 *)
(*   SpecTiles     - the tile transform and window.At over a Dataset        *)
(*   SpecRender    - timelapse.renderFrames over sorted records             *)
(*   SpecTimelapse - timelapse.Handler: its goroutine, the Onces, requests  *)
(*   SpecCache     - loadDataset, SaveTo and Load over the cache file       *)
(*   SpecIngest    - partialDataset.add and finalize over many colors       *)
(*   SpecAbortFair - Download with one long shard, under fair scheduling    *)
(*   SpecMain      - Download's return, Provide and the Dataset's readers  *)
(*   SpecParse     - parseLine2022 and adminRect over 2022 lines           *)
(*   SpecReq       - the tile handler's answer to one request              *)
(*   SpecCell      - partialDataset.add on coordinates around the canvas   *)
(*   SpecBatch     - Download with a shard longer than the chunks channel  *)
(*   SpecGrid      - Source.makeChunks over canvas sizes                   *)
(***************************************************************************)
EXTENDS Integers, Sequences, FiniteSets, TLC

VARIABLES
    \* ---- dataset.Download ----
    file,        \* file[i]: the lines shard i's URL serves (each line its comma-split fields)
    fate,        \* fate[i]: "ok" | "http" (Do fails / bad status) | "read" (lines.Err() # nil)
    spc,         \* spc[i]: position of shard i's goroutine
    pos,         \* pos[i]: lineno of Source.download
    pending,     \* pending[i]: the lines not yet sent
    serr,        \* serr[i]: what src.download returned (valid from "report" on)
    chunks,      \* the chunks channel (buffered, 2*len(URLs))
    errors,      \* the errors channel (buffered, len(URLs))
    wg,          \* the WaitGroup's counter
    done,        \* the done channel is closed
    cancelled,   \* ctx.Done() is closed
    cpc,         \* the coordinator: "loop" | "returned"
    result,      \* what Download returned: [ds: "nil" | "out", err]
    prep,        \* the partialDataset (out and the users/colors maps)
    sourceLineNumbers,
    parsed,      \* history: the lines handed to ParseLine, as <<source, line>>, in order
    finalizeRuns, \* history: how many times finalize ran
    \* ---- gsync.Future, gsync.After, main ----
    fready,      \* fready[f]: f.ready is closed
    fvalue,      \* fvalue[f]: f.value
    ferr,        \* ferr[f]: f.err
    provides,    \* history: provides[f] counts the Provide calls on f
    closePanic,  \* a Provide closed an already closed ready channel (runtime panic)
    lpc,         \* main's loader goroutine: "load" | "fatal" | "done"
    apc,         \* After's goroutine: "recv" | "xfrm" | "done"
    xfrmCalls,   \* history: invocations of the transform
    xfrmOut,     \* history: what the transform returned
    exited,      \* glog.Fatalf ended the process
    wpc,         \* wpc[w]: request w: "idle" | "waiting" | "returned"
    wfut,        \* wfut[w]: the Future request w waits on
    wctx,        \* wctx[w]: request w's ctx.Done() is closed
    wres,        \* wres[w]: what w's last Wait returned
    \* ---- tiles.Handler, window.At ----
    tds,         \* the Dataset the Dataset future holds
    tpc,         \* the tile transform: "pending" | "ready"
    tdata,       \* the tileData the transform returned
    lastNonwhite,\* the transform's lastNonwhitePixel
    sample,      \* the last window.At call and its result
    \* ---- timelapse.renderFrames ----
    rrecords,    \* the records renderFrames was called with
    rpending,    \* pending
    rpixels,     \* pixels, by index Y*Dimension+X (absent: 0)
    rframes,     \* frames; history: each frame with the endDeltaMillis it was made for
    rpc,         \* "loop" | "done" | "panic"
    \* ---- timelapse.Handler ----
    hfuture,     \* the future channel's buffer
    hpc,         \* the Handler's goroutine: "recv" | "render" | "done"
    hframes,     \* frames
    hready,      \* ready is closed
    renderCalls, \* history: calls of renderFrames
    once,        \* once[k]: gifOnce / apngOnce: "idle" | "running" | "done"
    hdata,       \* hdata[k]: gifData / apngData
    encodes,     \* history: encodes[k] counts writeGIF / writeAPNG calls
    hexited,     \* glog.Fatalf ended the process
    qpc,         \* qpc[q]: request q: "idle" | "select" | "once" | "encode" | "write" | "served" | "notready"
    qkind,       \* qkind[q]: the suffix of request q's path
    qctx,        \* qctx[q]: request q's context is done
    qresp,       \* qresp[q]: what was written to request q
    \* ---- main.loadDataset, dataset.Load, Dataset.SaveTo ----
    cflag,       \* the --download flag
    cfile,       \* the file at the cache path
    cfile0,      \* history: the file at the cache path when the process started
    ctemp,       \* the temporary file of writeTemp
    cdl,         \* what dataset.Download returns when called
    ldpc,        \* loadDataset: "stat" | "download" | "load" | "returned"
    ldres,       \* what loadDataset returned
    ldload,      \* history: what dataset.Load returned to loadDataset
    croot,       \* what main provided to the Dataset future
    svpc,        \* the SaveTo goroutine: "idle" | "create" | "encode" | "flush" | "sync" | "rename" | "done" | "failed" | "removed"
    crashed,     \* the process was killed
    reloaded,    \* what a later dataset.Load of the cache path returned
    \* ---- ingestion of many colors: partialDataset.add and finalize ----
    iprep,       \* prep
    ipc,         \* Download: "ingest" | "returned" | "fatal"
    iout,        \* the Dataset Download returned
    \* ---- main: Download's return, its deferred finalize, Provide, waiters ----
    mpc,         \* main's goroutine: "ingest" | "deferred" | "returned" | "provided" | "fatal"
    madded,      \* history: the records added, in order
    mout,        \* out, the Dataset that prep and the returned pointer share
    mraw,        \* history: out as it was when the return statement ran
    mready,      \* the Dataset future's ready channel is closed
    mseen,       \* mseen[w]: the Dataset as waiter w found it when Wait returned
    mtile,       \* the tileData the tile transform computed
    msave,       \* what the SaveTo goroutine encoded
    mdetail,     \* what a details request was answered
    \* ---- parseLine2022 ----
    pin,         \* history: what the line was written from
    pline,       \* the fields of the line, strings.Split(line, ",")
    ppc,         \* "parse" | "done"
    pres,        \* what parseLine2022 returned
    \* ---- tiles.Handler: the requests ----
    kfut,        \* futurePixels: "pending" | "ready" | "failed"
    kdata,       \* the tileData futurePixels holds
    kreq,        \* kreq[q]: the path of request q
    kctx,        \* kctx[q]: request q's context is done
    kpc,         \* kpc[q]: "match" | "wait" | "scan" | "encode" | "done"
    kwait,       \* kwait[q]: history: how futurePixels.Wait returned: "none" | "ok" | "failed"
    kresp,       \* kresp[q]: what request q was answered
    \* ---- partialDataset.add over coordinates in and out of the canvas ----
    arecs,       \* the records the coordinator adds, in order
    aprep,       \* prep
    adone,       \* adone[i]: history: what became of the i-th add
    \* ---- Source.makeChunks ----
    gsize,       \* the Source's CanvasSize
    gpc,         \* "make" | "made"
    gout         \* what makeChunks returned

dlVars == <<file, fate, spc, pos, pending, serr, chunks, errors, wg, done,
            cancelled, cpc, result, prep, sourceLineNumbers, parsed, finalizeRuns>>

futVars == <<fready, fvalue, ferr, provides, closePanic, lpc, apc, xfrmCalls, xfrmOut,
             exited, wpc, wfut, wctx, wres>>

tileVars == <<tds, tpc, tdata, lastNonwhite, sample>>

renderVars == <<rrecords, rpending, rpixels, rframes, rpc>>

handlerVars == <<hfuture, hpc, hframes, hready, renderCalls, once, hdata, encodes,
                 hexited, qpc, qkind, qctx, qresp>>

\* The variables of the specifications other than the first three.
cacheVars == <<cflag, cfile, cfile0, ctemp, cdl, ldpc, ldres, ldload, croot, svpc,
               crashed, reloaded>>

ingestVars == <<iprep, ipc, iout>>

\* What the readers of the Dataset produce.
mreads == <<mtile, msave, mdetail>>

mainVars == <<mpc, madded, mout, mraw, mready, mseen, mreads>>

\* The variables of the specifications added after those above.
parseVars == <<pin, pline, ppc, pres>>

reqVars == <<kfut, kdata, kreq, kctx, kpc, kwait, kresp>>

cellVars == <<arecs, aprep, adone>>

gridVars == <<gsize, gpc, gout>>

moreVars == <<mainVars, parseVars, reqVars, cellVars, gridVars>>

restVars == <<renderVars, handlerVars, cacheVars, ingestVars, moreVars>>

vars == <<dlVars, futVars, tileVars, restVars>>

----------------------------------------------------------------------------
(* Bounds of the model *)

\* The number of shard URLs of the Source.
NumShards == 2
\* Source.download sends a batch once len(pending) exceeds 1000 (source.go:186);
\* the model keeps the comparison and scales the threshold down.
BatchLimit == 1

Shards == 0 .. (NumShards - 1)

----------------------------------------------------------------------------
(* Go arithmetic *)

\* Go's integer division truncates toward zero.
GoDiv(a, b) == IF a >= 0 THEN a \div b ELSE -((-a) \div b)

\* uint8(v): the low eight bits.
U8(v) == v % 256

ChunkDim == 256

----------------------------------------------------------------------------
(* Text of the 2017 source: a line is the sequence of its comma-separated  *)
(* fields; strconv and time.Parse are modelled on a finite alphabet of     *)
(* field texts.                                                            *)

header2017 == <<"ts", "user_hash", "x_coordinate", "y_coordinate", "color">>

\* strconv.Atoi on the field texts the model uses.
AtoiTable == ("0" :> 0) @@ ("1" :> 1) @@ ("2" :> 2) @@ ("3" :> 3) @@ ("5" :> 5)
             @@ ("255" :> 255) @@ ("256" :> 256) @@ ("257" :> 257)

\* time.Parse(TimestampLayout, s): milliseconds after the epoch for the well-formed texts.
TimeTable == ("T0" :> 0) @@ ("T1" :> 1) @@ ("T2" :> 2) @@ ("T3" :> 3)

NoRecords == [ok |-> TRUE, recs |-> <<>>, why |-> "nil"]
ParseFail(why) == [ok |-> FALSE, recs |-> <<>>, why |-> why]

parseLine2017(line) ==
    IF Len(line) # 5 THEN ParseFail("columns")
    ELSE LET tsStr == line[1]
             userHash == line[2]
             xStr == line[3]
             yStr == line[4]
             colorStr == line[5]
         IN  IF xStr = "" \/ yStr = "" \/ colorStr = "" THEN NoRecords
             ELSE IF tsStr \notin DOMAIN TimeTable THEN ParseFail("timestamp")
             ELSE IF xStr \notin DOMAIN AtoiTable THEN ParseFail("x")
             ELSE IF yStr \notin DOMAIN AtoiTable THEN ParseFail("y")
             ELSE IF colorStr \notin DOMAIN AtoiTable \/ AtoiTable[colorStr] > 255
                  THEN ParseFail("color")
             ELSE [ok |-> TRUE,
                   recs |-> << [Timestamp |-> TimeTable[tsStr], UserHash |-> userHash,
                                X |-> AtoiTable[xStr], Y |-> AtoiTable[yStr],
                                Color |-> AtoiTable[colorStr]] >>,
                   why |-> "nil"]

----------------------------------------------------------------------------
(* The Dataset under construction (partialDataset)                         *)
(*                                                                         *)
(* Chunks[k].Pixels[row][col] is kept sparsely: Pixels maps the keys       *)
(* <<k, row, col>> that were appended to, every other cell being the empty *)
(* slice the zero value gives.  A time is its offset from Epoch in ms; the *)
(* zero time.Time of an unset Start or End is the empty sequence.  A color *)
(* is named by its index in palette2017, whose entries are distinct.       *)

Version == "rplacemap-encoding-v2"

MaxInt32 == 2147483647
\* int32(v) for the values the model reaches, all within the int32 range (the
\* model checker's integers are 32 bits wide themselves).
Int32(v) == v

EmptyMap == [k \in {} |-> 0]
EmptyPixels == [k \in {} |-> <<>>]

CellOf(Pixels, key) == IF key \in DOMAIN Pixels THEN Pixels[key] ELSE <<>>

\* Source.makeChunks: the number of chunks per row.
makeChunksStride(canvasSize) == GoDiv(canvasSize + 255, ChunkDim)

\* Download's construction of out and prep (source.go:84-97).  A time is the
\* one-element tuple of its milliseconds since the Source's epoch, the zero
\* time.Time the empty tuple.
NewPartial(canvasSize) ==
    [Version |-> Version, Size |-> canvasSize, ChunkStride |-> makeChunksStride(canvasSize),
     Palette |-> <<>>, UserIDs |-> <<>>, Epoch |-> <<0>>, Start |-> <<>>, End |-> <<>>,
     Pixels |-> EmptyPixels, users |-> EmptyMap, colors |-> EmptyMap,
     panicked |-> FALSE, fatal |-> FALSE]

\* Mutant of MapPut: a new key takes index 0 and the keys seen before move up.
MapPutInFront(m, k) ==
    IF k \in DOMAIN m THEN m
    ELSE [j \in DOMAIN m \cup {k} |-> IF j = k THEN 0 ELSE m[j] + 1]

\* `if _, ok := m[k]; !ok { m[k] = len(m) }`
MapPut(m, k) == IF k \in DOMAIN m THEN m
                ELSE [j \in DOMAIN m \cup {k} |-> IF j = k THEN Cardinality(DOMAIN m) ELSE m[j]]

\* Mutant of add: End is the timestamp of the record added last.
addEndOfLast(d, rec) ==
    LET end == <<rec.Timestamp>>
        colors == MapPut(d.colors, rec.Color)
        users == MapPut(d.users, rec.UserHash)
        x == GoDiv(rec.X, ChunkDim)
        y == GoDiv(rec.Y, ChunkDim)
        k == y * d.ChunkStride + x
        ev == [DeltaMillis |-> Int32(rec.Timestamp),
               UserIndex |-> Int32(users[rec.UserHash]),
               ColorIndex |-> U8(colors[rec.Color])]
        key == <<k, U8(rec.Y), U8(rec.X)>>
    IN  IF d.panicked THEN d
        ELSE IF k < 0 \/ k >= d.ChunkStride * d.ChunkStride
        THEN [d EXCEPT !.End = end, !.colors = colors, !.users = users, !.panicked = TRUE]
        ELSE [d EXCEPT !.End = end, !.colors = colors, !.users = users,
                       !.Pixels = [j \in DOMAIN d.Pixels \cup {key} |->
                                     IF j = key THEN Append(CellOf(d.Pixels, key), ev)
                                     ELSE d.Pixels[j]]]

\* partialDataset.add
add(d, rec) ==
    LET end == IF d.End = <<>> \/ rec.Timestamp > d.End[1] THEN <<rec.Timestamp>> ELSE d.End
        colors == MapPut(d.colors, rec.Color)
        users == MapPut(d.users, rec.UserHash)
        x == GoDiv(rec.X, ChunkDim)
        y == GoDiv(rec.Y, ChunkDim)
        k == y * d.ChunkStride + x
        ev == [DeltaMillis |-> Int32(rec.Timestamp),
               UserIndex |-> Int32(users[rec.UserHash]),
               ColorIndex |-> U8(colors[rec.Color])]
        key == <<k, U8(rec.Y), U8(rec.X)>>
    IN  IF d.panicked THEN d
        ELSE IF k < 0 \/ k >= d.ChunkStride * d.ChunkStride
        THEN [d EXCEPT !.End = end, !.colors = colors, !.users = users, !.panicked = TRUE]
        ELSE [d EXCEPT !.End = end, !.colors = colors, !.users = users,
                       !.Pixels = [j \in DOMAIN d.Pixels \cup {key} |->
                                     IF j = key THEN Append(CellOf(d.Pixels, key), ev)
                                     ELSE d.Pixels[j]]]

RECURSIVE addAll(_, _)
addAll(d, recs) == IF recs = <<>> THEN d ELSE addAll(add(d, Head(recs)), Tail(recs))

\* Mutant of At: row and column take each other's place.
AtTransposed(d, row, col) ==
    CellOf(d.Pixels, <<GoDiv(col, ChunkDim) * d.ChunkStride + GoDiv(row, ChunkDim),
                       col % ChunkDim, row % ChunkDim>>)

\* Dataset.At(row, col)
At(d, row, col) ==
    CellOf(d.Pixels, <<GoDiv(row, ChunkDim) * d.ChunkStride + GoDiv(col, ChunkDim),
                       row % ChunkDim, col % ChunkDim>>)

IsSortedByDelta(s) == \A i \in 1 .. (Len(s) - 1) : s[i].DeltaMillis <= s[i + 1].DeltaMillis

\* Mutant of SortOutcomes: the sort works on a copy and leaves the cell as it was.
SortOutcomesOfCopy(s) == { s }

\* What sort.Slice with the less function of finalize may leave in a cell: any
\* ordering of its events ascending by DeltaMillis (sort.Slice is not stable).
SortOutcomes(s) ==
    { t \in { [i \in 1 .. Len(s) |-> s[f[i]]] : f \in Permutations(1 .. Len(s)) } :
        IsSortedByDelta(t) }

\* The cells whose sort has more than one possible outcome.
Ambiguous(Pixels) == { k \in DOMAIN Pixels : Cardinality(SortOutcomes(Pixels[k])) > 1 }

\* The loop `for i := range d.Pixels { for j := range d.Pixels[i] { sort.Slice ...`:
\* every cell sorted, each in one of the orders its sort may leave.
SortedPixels(Pixels) ==
    LET amb == Ambiguous(Pixels)
        choices == { c \in [amb -> UNION { SortOutcomes(Pixels[k]) : k \in amb }] :
                       \A k \in amb : c[k] \in SortOutcomes(Pixels[k]) }
    IN  { [k \in DOMAIN Pixels |->
             IF k \in amb THEN c[k] ELSE CHOOSE t \in SortOutcomes(Pixels[k]) : TRUE] :
          c \in choices }

MinOf(S) == CHOOSE m \in S : \A n \in S : m <= n

InvertMap(m) == [i \in 1 .. Cardinality(DOMAIN m) |-> CHOOSE k \in DOMAIN m : m[k] = i - 1]

\* Mutant of finalize: without the check of the number of colors.
finalizeUnchecked(d, sorted) ==
    [d EXCEPT !.UserIDs = InvertMap(d.users),
              !.Palette = InvertMap(d.colors),
              !.Pixels = sorted,
              !.Start = << MinOf({MaxInt32} \cup
                                 { Int32(sorted[k][1].DeltaMillis) : k \in DOMAIN sorted }) >>]

\* partialDataset.finalize, sorted being the outcome of the cells' sorts.
finalize(d, sorted) ==
    IF Cardinality(DOMAIN d.colors) > 256 THEN [d EXCEPT !.fatal = TRUE]
    ELSE [d EXCEPT !.UserIDs = InvertMap(d.users),
                   !.Palette = InvertMap(d.colors),
                   !.Pixels = sorted,
                   !.Start = << MinOf({MaxInt32} \cup
                                      { Int32(sorted[k][1].DeltaMillis) : k \in DOMAIN sorted }) >>]

----------------------------------------------------------------------------
(* dataset.Download and Source.download                                    *)

\* Dataset2017.CanvasSize
CanvasSize2017 == 1001

\* The Source the model ingests: the 2017 one, with NumShards URLs.
SrcHeader == header2017
ParseLine(line) == parseLine2017(line)

Err(kind, source, line, text) == [kind |-> kind, source |-> source, line |-> line, text |-> text]
NoErr == Err("nil", 0, 0, <<>>)

\* Lines a shard may serve.
GoodA == <<"T1", "alice", "0", "0", "5">>
GoodB == <<"T2", "bob", "1", "0", "3">>
BlankLine == <<"T1", "alice", "", "", "">>
BadLine == <<"T1", "alice", "x", "0", "5">>
OtherHeader == <<"timestamp", "user", "x", "y", "color">>
BlankHeader == <<"ts", "user_hash", "", "", "">>

\* What a shard's URL may serve, and how the transfer ends.
ShardInputs ==
    { [lines |-> <<SrcHeader>>, fate |-> "ok"],
      [lines |-> <<SrcHeader, GoodA>>, fate |-> "ok"],
      [lines |-> <<SrcHeader, GoodA, GoodB>>, fate |-> "ok"],
      [lines |-> <<SrcHeader, BlankLine, GoodB>>, fate |-> "ok"],
      [lines |-> <<SrcHeader, BadLine>>, fate |-> "ok"],
      [lines |-> <<OtherHeader, GoodA>>, fate |-> "ok"],
      [lines |-> <<BlankHeader, GoodB>>, fate |-> "ok"],
      [lines |-> <<GoodA, GoodB>>, fate |-> "ok"],
      [lines |-> <<>>, fate |-> "http"],
      [lines |-> <<SrcHeader, GoodA>>, fate |-> "read"] }

ChunksCap == 2 * NumShards
ErrorsCap == NumShards

\* The value of each group of variables in the specifications that do not use it.
DlIdle ==
    /\ file = <<>> /\ fate = <<>> /\ spc = <<>> /\ pos = <<>> /\ pending = <<>>
    /\ serr = <<>> /\ chunks = <<>> /\ errors = <<>> /\ wg = 0 /\ done = FALSE
    /\ cancelled = FALSE /\ cpc = "idle" /\ result = <<>> /\ prep = <<>>
    /\ sourceLineNumbers = <<>> /\ parsed = <<>> /\ finalizeRuns = 0

FutIdle ==
    /\ fready = <<>> /\ fvalue = <<>> /\ ferr = <<>> /\ provides = <<>>
    /\ closePanic = FALSE /\ lpc = "idle" /\ apc = "idle" /\ xfrmCalls = 0
    /\ xfrmOut = <<>> /\ exited = FALSE
    /\ wpc = <<>> /\ wfut = <<>> /\ wctx = <<>> /\ wres = <<>>

TileIdle ==
    /\ tds = <<>> /\ tpc = "idle" /\ tdata = <<>> /\ lastNonwhite = 0 /\ sample = <<>>

RenderIdle ==
    /\ rrecords = <<>> /\ rpending = <<>> /\ rpixels = <<>> /\ rframes = <<>> /\ rpc = "idle"

HandlerIdle ==
    /\ hfuture = <<>> /\ hpc = "idle" /\ hframes = <<>> /\ hready = FALSE
    /\ renderCalls = 0 /\ once = <<>> /\ hdata = <<>> /\ encodes = <<>>
    /\ hexited = FALSE /\ qpc = <<>> /\ qkind = <<>> /\ qctx = <<>> /\ qresp = <<>>

CacheIdle ==
    /\ cflag = FALSE /\ cfile = <<>> /\ cfile0 = <<>> /\ ctemp = <<>> /\ cdl = <<>>
    /\ ldpc = "idle" /\ ldres = <<>> /\ ldload = <<>> /\ croot = <<>> /\ svpc = "idle"
    /\ crashed = FALSE /\ reloaded = <<>>

IngestIdle == iprep = <<>> /\ ipc = "idle" /\ iout = <<>>

MainIdle ==
    /\ mpc = "idle" /\ madded = <<>> /\ mout = <<>> /\ mraw = <<>>
    /\ mready = FALSE /\ mseen = <<>>
    /\ mtile = <<>> /\ msave = <<>> /\ mdetail = <<>>

ParseIdle == pin = <<>> /\ pline = <<>> /\ ppc = "idle" /\ pres = <<>>

ReqIdle ==
    /\ kfut = "idle" /\ kdata = <<>> /\ kreq = <<>> /\ kctx = <<>> /\ kpc = <<>>
    /\ kwait = <<>> /\ kresp = <<>>

CellIdle == arecs = <<>> /\ aprep = <<>> /\ adone = <<>>

GridIdle == gsize = 0 /\ gpc = "idle" /\ gout = <<>>

MoreIdle == MainIdle /\ ParseIdle /\ ReqIdle /\ CellIdle /\ GridIdle

RestIdle == RenderIdle /\ HandlerIdle /\ CacheIdle /\ IngestIdle /\ MoreIdle

DlInitFrom(inputs) ==
    /\ \E in \in inputs :
          /\ file = [i \in Shards |-> in[i].lines]
          /\ fate = [i \in Shards |-> in[i].fate]
    /\ spc = [i \in Shards |-> "start"]
    /\ pos = [i \in Shards |-> 0]
    /\ pending = [i \in Shards |-> <<>>]
    /\ serr = [i \in Shards |-> NoErr]
    /\ chunks = <<>>
    /\ errors = <<>>
    /\ wg = NumShards
    /\ done = FALSE
    /\ cancelled = FALSE
    /\ cpc = "loop"
    /\ result = [ds |-> "nil", err |-> NoErr]
    /\ prep = NewPartial(CanvasSize2017)
    /\ sourceLineNumbers = [i \in Shards |-> 0]
    /\ parsed = <<>>
    /\ finalizeRuns = 0

DlInit == DlInitFrom([Shards -> ShardInputs])

\* Source.download up to the scan loop: the request fails at once when ctx is
\* cancelled, the transfer cannot start, or the status is not 200.
ShardStart(i) ==
    /\ spc[i] = "start"
    /\ IF cancelled \/ fate[i] = "http"
       THEN /\ spc' = [spc EXCEPT ![i] = "report"]
            /\ serr' = [serr EXCEPT ![i] = Err("http", i, 0, <<>>)]
       ELSE /\ spc' = [spc EXCEPT ![i] = "scan"]
            /\ UNCHANGED serr
    /\ UNCHANGED <<file, fate, pos, pending, chunks, errors, wg, done, cancelled, cpc,
                   result, prep, sourceLineNumbers, parsed, finalizeRuns>>
    /\ UNCHANGED <<futVars, tileVars, restVars>>

\* Mutant of ShardScan: a batch that finds the channel full is dropped.
ShardScanDropsWhenFull(i) ==
    /\ spc[i] = "scan"
    /\ pos[i] < Len(file[i])
    /\ LET lineno == pos[i] + 1
           line == file[i][lineno]
           pend == Append(pending[i], line)
       IN  /\ pos' = [pos EXCEPT ![i] = lineno]
           /\ IF lineno = 1 /\ line = SrcHeader
              THEN UNCHANGED <<pending, chunks>>
              ELSE IF Len(pend) > BatchLimit
              THEN /\ chunks' = IF Len(chunks) < ChunksCap
                                THEN Append(chunks, [source |-> i, lines |-> pend])
                                ELSE chunks
                   /\ pending' = [pending EXCEPT ![i] = <<>>]
              ELSE /\ pending' = [pending EXCEPT ![i] = pend]
                   /\ UNCHANGED chunks
    /\ UNCHANGED <<file, fate, spc, serr, errors, wg, done, cancelled, cpc,
                   result, prep, sourceLineNumbers, parsed, finalizeRuns>>
    /\ UNCHANGED <<futVars, tileVars, restVars>>

\* One iteration of `for lines.Scan()`.
ShardScan(i) ==
    /\ spc[i] = "scan"
    /\ pos[i] < Len(file[i])
    /\ LET lineno == pos[i] + 1
           line == file[i][lineno]
           pend == Append(pending[i], line)
       IN  /\ pos' = [pos EXCEPT ![i] = lineno]
           /\ IF lineno = 1 /\ line = SrcHeader
              THEN UNCHANGED <<pending, chunks>>
              ELSE IF Len(pend) > BatchLimit /\ Len(chunks) < ChunksCap
              THEN /\ chunks' = Append(chunks, [source |-> i, lines |-> pend])
                   /\ pending' = [pending EXCEPT ![i] = <<>>]
              ELSE /\ pending' = [pending EXCEPT ![i] = pend]
                   /\ UNCHANGED chunks
    /\ UNCHANGED <<file, fate, spc, serr, errors, wg, done, cancelled, cpc,
                   result, prep, sourceLineNumbers, parsed, finalizeRuns>>
    /\ UNCHANGED <<futVars, tileVars, restVars>>

\* lines.Scan() returns false: the body ended, or reading it failed (always
\* possible once ctx is cancelled); then the blocking send of what is pending
\* and the result of lines.Err().
ShardFlush(i) ==
    /\ spc[i] = "scan"
    /\ \E failed \in BOOLEAN :
          /\ IF failed THEN cancelled \/ (fate[i] = "read" /\ pos[i] = Len(file[i]))
                       ELSE fate[i] = "ok" /\ pos[i] = Len(file[i])
          /\ IF Len(pending[i]) > 0
             THEN /\ Len(chunks) < ChunksCap
                  /\ chunks' = Append(chunks, [source |-> i, lines |-> pending[i]])
             ELSE UNCHANGED chunks
          /\ serr' = [serr EXCEPT ![i] = IF failed THEN Err("read", i, 0, <<>>) ELSE NoErr]
    /\ spc' = [spc EXCEPT ![i] = "report"]
    /\ UNCHANGED <<file, fate, pos, pending, errors, wg, done, cancelled, cpc,
                   result, prep, sourceLineNumbers, parsed, finalizeRuns>>
    /\ UNCHANGED <<futVars, tileVars, restVars>>

\* errors <- errorSource{i, err}, then the deferred wg.Done().
ShardReport(i) ==
    /\ spc[i] = "report"
    /\ Len(errors) < ErrorsCap
    /\ errors' = Append(errors, [source |-> i, err |-> serr[i]])
    /\ wg' = wg - 1
    /\ spc' = [spc EXCEPT ![i] = "done"]
    /\ UNCHANGED <<file, fate, pos, pending, serr, chunks, done, cancelled, cpc,
                   result, prep, sourceLineNumbers, parsed, finalizeRuns>>
    /\ UNCHANGED <<futVars, tileVars, restVars>>

\* go func() { wg.Wait(); close(done) }()
CloseDone ==
    /\ wg = 0
    /\ ~done
    /\ done' = TRUE
    /\ UNCHANGED <<file, fate, spc, pos, pending, serr, chunks, errors, wg, cancelled, cpc,
                   result, prep, sourceLineNumbers, parsed, finalizeRuns>>
    /\ UNCHANGED <<futVars, tileVars, restVars>>

\* The caller's context is cancelled.
CallerCancel ==
    /\ cpc = "loop"
    /\ ~cancelled
    /\ cancelled' = TRUE
    /\ UNCHANGED <<file, fate, spc, pos, pending, serr, chunks, errors, wg, done, cpc,
                   result, prep, sourceLineNumbers, parsed, finalizeRuns>>
    /\ UNCHANGED <<futVars, tileVars, restVars>>

\* A return of Download: the deferred prep.finalize() and then the deferred cancel().
Return(d, ds, err) ==
    /\ \E sorted \in SortedPixels(d.Pixels) : prep' = finalize(d, sorted)
    /\ finalizeRuns' = finalizeRuns + 1
    /\ cancelled' = TRUE
    /\ cpc' = "returned"
    /\ result' = [ds |-> ds, err |-> err]

\* case <-done
CoordDone ==
    /\ cpc = "loop"
    /\ done
    /\ Return(prep, "out", NoErr)
    /\ UNCHANGED <<file, fate, spc, pos, pending, serr, chunks, errors, wg, done,
                   sourceLineNumbers, parsed>>
    /\ UNCHANGED <<futVars, tileVars, restVars>>

\* case <-ctx.Done()
CoordCtx ==
    /\ cpc = "loop"
    /\ cancelled
    /\ Return(prep, "nil", Err("ctx", 0, 0, <<>>))
    /\ UNCHANGED <<file, fate, spc, pos, pending, serr, chunks, errors, wg, done,
                   sourceLineNumbers, parsed>>
    /\ UNCHANGED <<futVars, tileVars, restVars>>

\* case es := <-errors
CoordError ==
    /\ cpc = "loop"
    /\ Len(errors) > 0
    /\ errors' = Tail(errors)
    /\ IF Head(errors).err # NoErr
       THEN Return(prep, "nil", Head(errors).err)
       ELSE UNCHANGED <<cancelled, cpc, result, prep, finalizeRuns>>
    /\ UNCHANGED <<file, fate, spc, pos, pending, serr, chunks, wg, done,
                   sourceLineNumbers, parsed>>
    /\ UNCHANGED <<futVars, tileVars, restVars>>

\* The loop over chunk.lines: the lines parsed before the first failure are added.
RECURSIVE ApplyLines(_, _, _, _, _)
ApplyLines(d, n, seen, source, lines) ==
    IF lines = <<>> THEN [d |-> d, n |-> n, seen |-> seen, err |-> NoErr]
    ELSE LET line == Head(lines)
             r == ParseLine(line)
             seen1 == Append(seen, <<source, line>>)
         IN  IF ~r.ok THEN [d |-> d, n |-> n, seen |-> seen1,
                            err |-> Err("parse", source, n, line)]
             ELSE ApplyLines(addAll(d, r.recs), n + 1, seen1, source, Tail(lines))

\* case chunk := <-chunks
CoordChunk ==
    /\ cpc = "loop"
    /\ Len(chunks) > 0
    /\ chunks' = Tail(chunks)
    /\ LET c == Head(chunks)
           a == ApplyLines(prep, sourceLineNumbers[c.source], parsed, c.source, c.lines)
       IN  /\ sourceLineNumbers' = [sourceLineNumbers EXCEPT ![c.source] = a.n]
           /\ parsed' = a.seen
           /\ IF a.err # NoErr
              THEN Return(a.d, "nil", a.err)
              ELSE /\ prep' = a.d
                   /\ UNCHANGED <<cancelled, cpc, result, finalizeRuns>>
    /\ UNCHANGED <<file, fate, spc, pos, pending, serr, errors, wg, done>>
    /\ UNCHANGED <<futVars, tileVars, restVars>>

DlNext ==
    \/ \E i \in Shards : ShardStart(i)
    \/ \E i \in Shards : ShardScan(i)
    \/ \E i \in Shards : ShardFlush(i)
    \/ \E i \in Shards : ShardReport(i)
    \/ CloseDone
    \/ CallerCancel
    \/ CoordDone
    \/ CoordCtx
    \/ CoordError
    \/ CoordChunk

InitDownload == DlInit /\ FutIdle /\ TileIdle /\ RestIdle

SpecDownload == InitDownload /\ [][DlNext]_vars

----------------------------------------------------------------------------
(* Claims about Download (checked under SpecDownload)                      *)

RECURSIVE SumLens(_, _)
SumLens(f, S) == IF S = {} THEN 0
                 ELSE LET k == CHOOSE k \in S : TRUE
                      IN  Len(f[k]) + SumLens(f, S \ {k})

\* The number of events stored in the cells of d.
StoredEvents(d) == SumLens(d.Pixels, DOMAIN d.Pixels)

\* The raw events ParseLine yields for each non-header line of shard i.
ShardRawEvents(i) ==
    [n \in 1 .. Len(file[i]) |->
        IF n = 1 /\ file[i][n] = SrcHeader THEN <<>> ELSE ParseLine(file[i][n]).recs]

RECURSIVE SumShards(_)
SumShards(S) == IF S = {} THEN 0
                ELSE LET i == CHOOSE i \in S : TRUE
                     IN  SumLens(ShardRawEvents(i), DOMAIN ShardRawEvents(i)) + SumShards(S \ {i})

TotalRawEvents == SumShards(Shards)

ReturnedDataset == cpc = "returned" /\ result.ds = "out"

\* Shard i's task has ended with a fatal error.
ShardFailed(i) == spc[i] = "done" /\ serr[i] # NoErr

\* C1: once a shard task has ended with a fatal error, Download returns a
\* non-nil error and a nil Dataset, whichever ready case the coordinator's select takes.
C1_ShardErrorAbortsDownload ==
    (cpc = "returned" /\ \E i \in Shards : ShardFailed(i))
        => (result.ds = "nil" /\ result.err # NoErr)

\* C2: when Download returns successfully (every shard task having returned nil)
\* no batch is left in the chunks channel and the Dataset stores exactly the raw
\* events of all non-header lines of all shards.
C2_SuccessConsumedEveryBatch ==
    (ReturnedDataset /\ \A i \in Shards : serr[i] = NoErr)
        => (chunks = <<>> /\ StoredEvents(prep) = TotalRawEvents)

\* Shard i serves a first line that is not the expected header.
HeaderMismatch(i) == Len(file[i]) > 0 /\ file[i][1] # SrcHeader

\* C3: a shard whose first line is not the expected header makes ingestion abort
\* with an error and no Dataset, and that line is never handed on as a data line.
C3_HeaderMismatchAborts ==
    \A i \in Shards :
        HeaderMismatch(i) =>
            /\ cpc = "returned" => (result.ds = "nil" /\ result.err # NoErr)
            /\ \A k \in 1 .. Len(parsed) : parsed[k] # <<i, file[i][1]>>

----------------------------------------------------------------------------
(* gsync.Future, gsync.After, and their users in main and tiles.Handler     *)

\* The number of concurrent requests (callers of Wait).
NumWaiters == 2

Waiters == 1 .. NumWaiters

\* futureDataset of main, and futurePixels = After(futureDataset, ...) of tiles.Handler.
Futures == {"dataset", "pixels"}

\* `var zero T`
Zero == "zero"

\* What loadDataset may return.
LoadOutcomes == { [value |-> "ds", err |-> "nil"], [value |-> Zero, err |-> "loadErr"] }

\* What a transform handed to After may return.
XfrmOutcomes == { [value |-> "tileData", err |-> "nil"], [value |-> Zero, err |-> "xfrmErr"] }

FutInit ==
    /\ fready = [f \in Futures |-> FALSE]
    /\ fvalue = [f \in Futures |-> Zero]
    /\ ferr = [f \in Futures |-> "nil"]
    /\ provides = [f \in Futures |-> 0]
    /\ closePanic = FALSE
    /\ lpc = "load"
    /\ apc = "recv"
    /\ xfrmCalls = 0
    /\ xfrmOut = [value |-> Zero, err |-> "nil"]
    /\ exited = FALSE
    /\ wpc = [w \in Waiters |-> "idle"]
    /\ wfut = [w \in Waiters |-> "dataset"]
    /\ wctx = [w \in Waiters |-> FALSE]
    /\ wres = [w \in Waiters |-> [value |-> Zero, err |-> "nil"]]

\* Future.Provide: the fields are written, then ready is closed; closing a
\* closed channel panics.
Provide(f, value, err) ==
    /\ fvalue' = [fvalue EXCEPT ![f] = value]
    /\ ferr' = [ferr EXCEPT ![f] = err]
    /\ fready' = [fready EXCEPT ![f] = TRUE]
    /\ provides' = [provides EXCEPT ![f] = @ + 1]
    /\ closePanic' = (closePanic \/ fready[f])

Running == ~exited /\ ~closePanic

\* main: futureDataset.Provide(loadDataset())
LoaderProvide ==
    /\ Running
    /\ lpc = "load"
    /\ \E out \in LoadOutcomes :
          /\ Provide("dataset", out.value, out.err)
          /\ lpc' = IF out.err # "nil" THEN "fatal" ELSE "done"
    /\ UNCHANGED <<apc, xfrmCalls, xfrmOut, exited, wpc, wfut, wctx, wres>>
    /\ UNCHANGED <<dlVars, tileVars, restVars>>

\* main: glog.Fatalf("Failed to initialize: %s", err)
LoaderFatal ==
    /\ Running
    /\ lpc = "fatal"
    /\ exited' = TRUE
    /\ UNCHANGED <<fready, fvalue, ferr, provides, closePanic, lpc, apc, xfrmCalls, xfrmOut,
                   wpc, wfut, wctx, wres>>
    /\ UNCHANGED <<dlVars, tileVars, restVars>>

\* Mutant of AfterRecv: the error branch lacks its return and falls through to the
\* call of the transform.
AfterRecvFallsThrough ==
    /\ Running
    /\ apc = "recv"
    /\ fready["dataset"]
    /\ IF ferr["dataset"] # "nil"
       THEN Provide("pixels", Zero, ferr["dataset"])
       ELSE UNCHANGED <<fready, fvalue, ferr, provides, closePanic>>
    /\ xfrmCalls' = xfrmCalls + 1
    /\ apc' = "xfrm"
    /\ UNCHANGED <<lpc, xfrmOut, exited, wpc, wfut, wctx, wres>>
    /\ UNCHANGED <<dlVars, tileVars, restVars>>

\* Mutant of AfterRecv: f1.err is not looked at and the error is forwarded with
\* whatever the transform makes of the zero value.
AfterRecvIgnoresErr ==
    /\ Running
    /\ apc = "recv"
    /\ fready["dataset"]
    /\ xfrmCalls' = xfrmCalls + 1
    /\ apc' = "xfrm"
    /\ UNCHANGED <<fready, fvalue, ferr, provides, closePanic>>
    /\ UNCHANGED <<lpc, xfrmOut, exited, wpc, wfut, wctx, wres>>
    /\ UNCHANGED <<dlVars, tileVars, restVars>>

\* After's goroutine: <-f1.ready, then the error branch (Provide and return) or
\* the call of xfrm(f1.value).
AfterRecv ==
    /\ Running
    /\ apc = "recv"
    /\ fready["dataset"]
    /\ IF ferr["dataset"] # "nil"
       THEN /\ Provide("pixels", Zero, ferr["dataset"])
            /\ apc' = "done"
            /\ UNCHANGED xfrmCalls
       ELSE /\ xfrmCalls' = xfrmCalls + 1
            /\ apc' = "xfrm"
            /\ UNCHANGED <<fready, fvalue, ferr, provides, closePanic>>
    /\ UNCHANGED <<lpc, xfrmOut, exited, wpc, wfut, wctx, wres>>
    /\ UNCHANGED <<dlVars, tileVars, restVars>>

\* Mutant of AfterXfrmReturn: a failed transform is logged and f2 left unresolved.
AfterXfrmReturnDropsError ==
    /\ Running
    /\ apc = "xfrm"
    /\ \E out \in XfrmOutcomes :
          /\ IF out.err = "nil" THEN Provide("pixels", out.value, out.err)
                                ELSE UNCHANGED <<fready, fvalue, ferr, provides, closePanic>>
          /\ xfrmOut' = out
    /\ apc' = "done"
    /\ UNCHANGED <<lpc, xfrmCalls, exited, wpc, wfut, wctx, wres>>
    /\ UNCHANGED <<dlVars, tileVars, restVars>>

\* After's goroutine: xfrm returns and f2.Provide receives its results.
AfterXfrmReturn ==
    /\ Running
    /\ apc = "xfrm"
    /\ \E out \in XfrmOutcomes :
          /\ Provide("pixels", out.value, out.err)
          /\ xfrmOut' = out
    /\ apc' = "done"
    /\ UNCHANGED <<lpc, xfrmCalls, exited, wpc, wfut, wctx, wres>>
    /\ UNCHANGED <<dlVars, tileVars, restVars>>

\* A request handler calls f.Wait(ctx) with its request's context.
WaitStart(w) ==
    /\ Running
    /\ wpc[w] # "waiting"
    /\ \E f \in Futures : wfut' = [wfut EXCEPT ![w] = f]
    /\ wpc' = [wpc EXCEPT ![w] = "waiting"]
    /\ wctx' = [wctx EXCEPT ![w] = FALSE]
    /\ UNCHANGED <<fready, fvalue, ferr, provides, closePanic, lpc, apc, xfrmCalls, xfrmOut,
                   exited, wres>>
    /\ UNCHANGED <<dlVars, tileVars, restVars>>

\* The request is cancelled or its deadline passes.
CtxCancel(w) ==
    /\ Running
    /\ wpc[w] = "waiting"
    /\ ~wctx[w]
    /\ wctx' = [wctx EXCEPT ![w] = TRUE]
    /\ UNCHANGED <<fready, fvalue, ferr, provides, closePanic, lpc, apc, xfrmCalls, xfrmOut,
                   exited, wpc, wfut, wres>>
    /\ UNCHANGED <<dlVars, tileVars, restVars>>

\* Mutant of WaitCancelled: a cancelled Wait resolves the Future with its error.
WaitCancelledPoisons(w) ==
    /\ Running
    /\ wpc[w] = "waiting"
    /\ wctx[w]
    /\ Provide(wfut[w], Zero, "ctxErr")
    /\ wres' = [wres EXCEPT ![w] = [value |-> Zero, err |-> "ctxErr"]]
    /\ wpc' = [wpc EXCEPT ![w] = "returned"]
    /\ UNCHANGED <<lpc, apc, xfrmCalls, xfrmOut, exited, wfut, wctx>>
    /\ UNCHANGED <<dlVars, tileVars, restVars>>

\* Future.Wait: case <-ctx.Done()
WaitCancelled(w) ==
    /\ Running
    /\ wpc[w] = "waiting"
    /\ wctx[w]
    /\ wres' = [wres EXCEPT ![w] = [value |-> Zero, err |-> "ctxErr"]]
    /\ wpc' = [wpc EXCEPT ![w] = "returned"]
    /\ UNCHANGED <<fready, fvalue, ferr, provides, closePanic, lpc, apc, xfrmCalls, xfrmOut,
                   exited, wfut, wctx>>
    /\ UNCHANGED <<dlVars, tileVars, restVars>>

\* Mutant of WaitReady: the derived value is computed lazily, by each Wait that
\* finds the source ready.
WaitReadyComputes(w) ==
    /\ Running
    /\ wpc[w] = "waiting"
    /\ fready[wfut[w]]
    /\ xfrmCalls' = IF wfut[w] = "pixels" THEN xfrmCalls + 1 ELSE xfrmCalls
    /\ wres' = [wres EXCEPT ![w] = [value |-> fvalue[wfut[w]], err |-> ferr[wfut[w]]]]
    /\ wpc' = [wpc EXCEPT ![w] = "returned"]
    /\ UNCHANGED <<fready, fvalue, ferr, provides, closePanic, lpc, apc, xfrmOut,
                   exited, wfut, wctx>>
    /\ UNCHANGED <<dlVars, tileVars, restVars>>

\* Mutant of WaitReady: the Wait reads the value before Provide's write of it
\* is visible.
WaitReadyBeforeWrite(w) ==
    /\ Running
    /\ wpc[w] = "waiting"
    /\ fready[wfut[w]]
    /\ wres' = [wres EXCEPT ![w] = [value |-> Zero, err |-> ferr[wfut[w]]]]
    /\ wpc' = [wpc EXCEPT ![w] = "returned"]
    /\ UNCHANGED <<fready, fvalue, ferr, provides, closePanic, lpc, apc, xfrmCalls, xfrmOut,
                   exited, wfut, wctx>>
    /\ UNCHANGED <<dlVars, tileVars, restVars>>

\* Future.Wait: case <-f.ready
WaitReady(w) ==
    /\ Running
    /\ wpc[w] = "waiting"
    /\ fready[wfut[w]]
    /\ wres' = [wres EXCEPT ![w] = [value |-> fvalue[wfut[w]], err |-> ferr[wfut[w]]]]
    /\ wpc' = [wpc EXCEPT ![w] = "returned"]
    /\ UNCHANGED <<fready, fvalue, ferr, provides, closePanic, lpc, apc, xfrmCalls, xfrmOut,
                   exited, wfut, wctx>>
    /\ UNCHANGED <<dlVars, tileVars, restVars>>

FutNext ==
    \/ LoaderProvide
    \/ LoaderFatal
    \/ AfterRecv
    \/ AfterXfrmReturn
    \/ \E w \in Waiters : WaitStart(w)
    \/ \E w \in Waiters : CtxCancel(w)
    \/ \E w \in Waiters : WaitCancelled(w)
    \/ \E w \in Waiters : WaitReady(w)

InitFuture == FutInit /\ DlIdle /\ TileIdle /\ RestIdle

SpecFuture == InitFuture /\ [][FutNext]_vars

\* Go schedules every runnable goroutine eventually: After's goroutine takes its
\* steps (the transform being assumed to return) and a Wait whose Future is ready
\* returns.
FutFairness ==
    /\ WF_vars(AfterRecv)
    /\ WF_vars(AfterXfrmReturn)
    /\ \A w \in Waiters : WF_vars(WaitReady(w) \/ WaitCancelled(w))

SpecFutureFair == InitFuture /\ [][FutNext]_vars /\ FutFairness

----------------------------------------------------------------------------
(* Claims about the Futures (checked under SpecFuture and SpecFutureFair)  *)

OutcomeOf(f) == [value |-> fvalue[f], err |-> ferr[f]]

\* C4: the transform handed to After is invoked at most once, whatever the
\* number of Waits on either Future and whenever they are cancelled.
C4_TransformAtMostOnce == xfrmCalls <= 1

\* Every request has obtained the derived value, and the transform ran once.
C4_Witness ==
    /\ xfrmCalls = 1
    /\ \A w \in Waiters :
          wpc[w] = "returned" /\ wfut[w] = "pixels" /\ wres[w] = OutcomeOf("pixels")
    /\ \E w \in Waiters : wres[w].err = "nil"

\* Request w's Wait returns on its context in this step.
CancelledReturn(w) ==
    wpc[w] = "waiting" /\ wpc'[w] = "returned" /\ wres'[w].err = "ctxErr"

\* C5: a Wait that returns on its cancelled context returns the zero value and
\* changes neither the Future nor any other request's Wait; every Wait that
\* returns on readiness returns what the Future was resolved with.
C5_CancelledWaitLeavesFuture ==
    /\ [][\A w \in Waiters :
            CancelledReturn(w) =>
                /\ wres'[w].value = Zero
                /\ UNCHANGED <<fready, fvalue, ferr, provides>>
                /\ \A v \in Waiters \ {w} : wpc'[v] = wpc[v] /\ wres'[v] = wres[v]]_vars
    /\ [](\A w \in Waiters :
            (wpc[w] = "returned" /\ wres[w].err # "ctxErr")
                => (fready[wfut[w]] /\ wres[w] = OutcomeOf(wfut[w])))

\* One request has given up on a pending Future another request still waits on.
C5_Witness ==
    \E w, v \in Waiters :
        /\ w # v
        /\ wfut[w] = wfut[v]
        /\ ~fready[wfut[w]]
        /\ wpc[w] = "returned" /\ wres[w] = [value |-> Zero, err |-> "ctxErr"]
        /\ wpc[v] = "waiting"

\* C6: every Future starts pending, Provide is called at most once on it (once
\* on the Dataset future when the loader is through, once on the derived future
\* when After's goroutine is through), no Provide closes a closed channel, and
\* a resolved Future stays resolved with the same outcome.
C6_ResolvedExactlyOnce ==
    /\ \A f \in Futures : ~fready[f]
    /\ [](\A f \in Futures : provides[f] <= 1 /\ (fready[f] <=> provides[f] = 1))
    /\ [](~closePanic)
    /\ [](lpc \in {"done", "fatal"} => provides["dataset"] = 1)
    /\ [](apc = "done" => provides["pixels"] = 1)
    /\ [][\A f \in Futures :
            fready[f] => (fready'[f] /\ fvalue'[f] = fvalue[f] /\ ferr'[f] = ferr[f])]_vars

\* Both Futures are resolved, the derived one through the transform.
C6_Witness ==
    /\ \A f \in Futures : fready[f] /\ provides[f] = 1
    /\ lpc = "done" /\ apc = "done" /\ xfrmCalls = 1

\* C7: when the source Future is resolved with an error the transform is never
\* invoked, and the derived Future, resolved by the time After's goroutine is
\* through, holds the zero value and that same error.
C7_SourceErrorForwarded ==
    (fready["dataset"] /\ ferr["dataset"] # "nil")
        => /\ xfrmCalls = 0
           /\ apc \in {"recv", "done"}
           /\ apc = "done" => fready["pixels"]
           /\ fready["pixels"] => OutcomeOf("pixels") = [value |-> Zero, err |-> ferr["dataset"]]

\* The derived Future holds the loader's error and a request has seen it.
C7_Witness ==
    /\ ferr["dataset"] = "loadErr"
    /\ fready["pixels"] /\ ferr["pixels"] = "loadErr"
    /\ \E w \in Waiters : wpc[w] = "returned" /\ wfut[w] = "pixels" /\ wres[w].err = "loadErr"

SourceSucceeded == fready["dataset"] /\ ferr["dataset"] = "nil"

\* C8: once the source Future is resolved successfully (the transform returning)
\* the derived Future is eventually resolved with exactly what the transform
\* returned, whether or not anybody waits on it, and every Wait on it then
\* returns that outcome unless its context is cancelled.
C8_DerivedEventuallyResolves ==
    /\ SourceSucceeded ~> (fready["pixels"] /\ OutcomeOf("pixels") = xfrmOut /\ xfrmCalls = 1)
    /\ \A w \in Waiters :
          (SourceSucceeded /\ wpc[w] = "waiting" /\ wfut[w] = "pixels")
              ~> (wpc[w] = "returned" /\ (wres[w] = xfrmOut \/ wres[w].err = "ctxErr"))

\* The derived Future was resolved through the transform while nobody had
\* waited on anything.
C8_Witness ==
    /\ SourceSucceeded
    /\ fready["pixels"] /\ OutcomeOf("pixels") = xfrmOut /\ apc = "done"
    /\ \A w \in Waiters : wpc[w] = "idle"

----------------------------------------------------------------------------
(* tiles.Handler: the transform behind futurePixels, and window.At          *)

\* The most raw records an ingested Dataset of this specification holds.
MaxRecs == 4
\* The number of distinct colors its records may use.
NumColors == 4

\* Where and when the records are placed: the first and the last pixel of the
\* 2017 canvas.
TilePlaces == { <<0, 0>>, <<CanvasSize2017 - 1, CanvasSize2017 - 1>> }
TileTimes == { 1, 2 }

\* add and the transform use a color only through its index in first-seen
\* order, so the colors of a record sequence are named in that order.
FirstSeenOrder(cs) ==
    \A i \in 1 .. Len(cs) :
        \A c \in 0 .. (cs[i] - 1) : \E j \in 1 .. (i - 1) : cs[j] = c

\* n raw records, as parseLine2017 returns them.
RecordsOf(n, ts, ps, cs) ==
    [i \in 1 .. n |-> [Timestamp |-> ts[i], UserHash |-> "alice",
                       X |-> ps[i][1], Y |-> ps[i][2], Color |-> cs[i]]]

\* The Dataset is one Download can produce from at most MaxRecs records.
TileInit ==
    /\ \E n \in 0 .. MaxRecs :
          \E ts \in [1 .. n -> TileTimes], ps \in [1 .. n -> TilePlaces],
             cs \in { c \in [1 .. n -> 0 .. (NumColors - 1)] : FirstSeenOrder(c) } :
             LET d == addAll(NewPartial(CanvasSize2017), RecordsOf(n, ts, ps, cs))
             IN  \E sorted \in SortedPixels(d.Pixels) : tds = finalize(d, sorted)
    /\ tpc = "pending"
    /\ tdata = <<>>
    /\ lastNonwhite = 0
    /\ sample = <<>>

RECURSIVE MaxOver(_, _)
MaxOver(S, m) == IF S = {} THEN m
                 ELSE LET v == CHOOSE v \in S : TRUE
                      IN  MaxOver(S \ {v}, IF v > m THEN v ELSE m)

\* The first loop of the transform: lastNonwhitePixel.
LastNonwhitePixel(ds) ==
    MaxOver(UNION { { ds.Pixels[k][i].DeltaMillis :
                        i \in { j \in DOMAIN ds.Pixels[k] : ds.Pixels[k][j].ColorIndex > 2 } } :
                    k \in DOMAIN ds.Pixels },
            0)

\* `for i := len(ev) - 1; i >= 0; i--`: the newest event not after the cutoff.
RECURSIVE ScanBack(_, _, _)
ScanBack(ev, i, last) ==
    IF i < 1 THEN [found |-> FALSE, idx |-> 0]
    ELSE IF ev[i].DeltaMillis > last THEN ScanBack(ev, i - 1, last)
    ELSE [found |-> TRUE, idx |-> ev[i].ColorIndex]

\* Mutant of PixelFor: the newest event of the cell, whatever the cutoff.
PixelForNewest(ev, last) == [found |-> TRUE, idx |-> ev[Len(ev)].ColorIndex]

\* What the transform stores for a cell with the events ev.
PixelFor(ev, last) == ScanBack(ev, Len(ev), last)

\* The rows and columns ds.At finds events at.
CellsWithEvents(ds) ==
    { << GoDiv(k[1], ds.ChunkStride) * ChunkDim + k[2],
         (k[1] % ds.ChunkStride) * ChunkDim + k[3] >> : k \in DOMAIN ds.Pixels }

\* The transform of tiles.Handler.  pixels is size x size and zero where nothing
\* is stored; the model keeps the entries the loop assigns.
TileTransformOf(ds, last) ==
    LET assigned == { rc \in CellsWithEvents(ds) : PixelFor(At(ds, rc[1], rc[2]), last).found }
    IN  [pixels |-> [rc \in assigned |-> PixelFor(At(ds, rc[1], rc[2]), last).idx],
         size |-> ds.ChunkStride * ChunkDim,
         palette |-> ds.Palette,
         canvasSize |-> ds.Size,
         globalScale |-> ds.ChunkStride]

TileTransform ==
    /\ tpc = "pending"
    /\ lastNonwhite' = LastNonwhitePixel(tds)
    /\ tdata' = TileTransformOf(tds, LastNonwhitePixel(tds))
    /\ tpc' = "ready"
    /\ UNCHANGED <<tds, sample>>
    /\ UNCHANGED <<dlVars, futVars, restVars>>

\* PixelData[r][c]
PixelDataAt(td, r, c) == IF <<r, c>> \in DOMAIN td.pixels THEN td.pixels[<<r, c>>] ELSE 0

Transparent == [kind |-> "transparent", color |-> 0, indexed |-> FALSE]
Colored(c) == [kind |-> "color", color |-> c, indexed |-> TRUE]
IndexPanic == [kind |-> "panic", color |-> 0, indexed |-> TRUE]

\* Palette[idx]
PaletteAt(palette, idx) == IF idx < Len(palette) THEN Colored(palette[idx + 1]) ELSE IndexPanic

\* Mutant of windowAt: the version without the bounds check, wrapping the indices.
windowAtWrapping(win, x, y) ==
    LET pX == GoDiv(x * win.GlobalScale, win.PixelScale)
        pY == GoDiv(y * win.GlobalScale, win.PixelScale)
    IN  PaletteAt(win.Palette, PixelDataAt(win.Data, pY % win.Size, pX % win.Size))

\* Mutant of windowAt: the tile coordinate is divided by PixelScale without
\* being scaled to the canvas first.
windowAtUnscaled(win, x, y) ==
    LET pX == GoDiv(x, win.PixelScale)
        pY == GoDiv(y, win.PixelScale)
    IN  IF pY < 0 \/ pX < 0 \/ pY >= win.CanvasSize \/ pX >= win.CanvasSize
        THEN Transparent
        ELSE PaletteAt(win.Palette, PixelDataAt(win.Data, pY, pX))

\* window.At
windowAt(win, x, y) ==
    LET pX == GoDiv(x * win.GlobalScale, win.PixelScale)
        pY == GoDiv(y * win.GlobalScale, win.PixelScale)
    IN  IF pY < 0 \/ pX < 0 \/ pY >= win.CanvasSize \/ pX >= win.CanvasSize
        THEN Transparent
        ELSE PaletteAt(win.Palette, PixelDataAt(win.Data, pY, pX))

\* 1 << z
Pow2(z) == [n \in 0 .. 3 |-> IF n = 0 THEN 1 ELSE IF n = 1 THEN 2 ELSE IF n = 2 THEN 4 ELSE 8][z]

\* The window the handler builds for /tiles/<x>_<y>_z<z>_<w>x<h>.png
WindowOf(td, x, y, z, w, h) ==
    [Size |-> td.size, CanvasSize |-> td.canvasSize, Data |-> td, Palette |-> td.palette,
     TileX |-> x, TileY |-> y, TileWidth |-> w, TileHeight |-> h,
     PixelScale |-> Pow2(z), GlobalScale |-> td.globalScale]

\* The tiles, zooms and in-tile offsets requests ask for.
TileIndexes == { 0, 3, 7 }
TileZooms == { 2, 3 }
TileOffsets == { 0, 209, 232, 233 }
TileSide == 256

\* window.Bounds: image.Rect of the corners, which are in order for the widths
\* and heights a path can give (tilePath admits digits only).
Bounds(win) ==
    LET x0 == win.TileX * win.TileWidth
        y0 == win.TileY * win.TileHeight
        x1 == x0 + win.TileWidth
        y1 == y0 + win.TileHeight
    IN  [Min |-> <<x0, y0>>, Max |-> <<x1, y1>>]

\* A request is served once futurePixels is ready, and the PNG encoder calls
\* At for a pixel of the window's Bounds.
TileAt ==
    /\ tpc = "ready"
    /\ sample = <<>>
    /\ \E t \in TileIndexes, z \in TileZooms, o \in TileOffsets :
          LET win == WindowOf(tdata, t, t, z, TileSide, TileSide)
              x == win.TileX * win.TileWidth + o
              y == win.TileY * win.TileHeight + o
          IN  sample' = [tile |-> t, z |-> z, x |-> x, y |-> y, bounds |-> Bounds(win),
                         out |-> windowAt(win, x, y)]
    /\ UNCHANGED <<tds, tpc, tdata, lastNonwhite>>
    /\ UNCHANGED <<dlVars, futVars, restVars>>

\* The handler returns after png.Encode.
TileServed ==
    /\ sample # <<>>
    /\ sample' = <<>>
    /\ UNCHANGED <<tds, tpc, tdata, lastNonwhite>>
    /\ UNCHANGED <<dlVars, futVars, restVars>>

TileNext ==
    \/ TileTransform
    \/ TileAt
    \/ TileServed

InitTiles == TileInit /\ DlIdle /\ FutIdle /\ RestIdle

SpecTiles == InitTiles /\ [][TileNext]_vars

----------------------------------------------------------------------------
(* Claims about the tile pixel buffer and window.At                         *)

\* The index of the last event of the sorted history h that is not after cutoff.
LastIndexAtOrBefore(h, cutoff) ==
    CHOOSE i \in DOMAIN h :
        /\ h[i].DeltaMillis <= cutoff
        /\ \A j \in DOMAIN h : h[j].DeltaMillis <= cutoff => j <= i

HasEventAtOrBefore(h, cutoff) == \E i \in DOMAIN h : h[i].DeltaMillis <= cutoff

\* C9: once the transform has run, for every canvas coordinate (x, y) whose
\* history Dataset.At(y, x) has an event with DeltaMillis at or before the
\* whitening cutoff, the pixel buffer at [y][x] holds the ColorIndex of the
\* last such event of the sorted history; later events never decide the pixel.
C9_PixelIsLastEventBeforeCutoff ==
    tpc = "ready" =>
        \A rc \in CellsWithEvents(tds) \cup { <<p[2], p[1]>> : p \in TilePlaces } :
            LET h == At(tds, rc[1], rc[2])
            IN  HasEventAtOrBefore(h, lastNonwhite) =>
                    PixelDataAt(tdata, rc[1], rc[2]) =
                        h[LastIndexAtOrBefore(h, lastNonwhite)].ColorIndex

\* C9's case: a positive cutoff, and a cell whose newest event is after it and
\* has another color than the event the buffer shows.
C9_Witness ==
    /\ tpc = "ready"
    /\ lastNonwhite > 0
    /\ \E rc \in CellsWithEvents(tds) :
          LET h == At(tds, rc[1], rc[2])
          IN  /\ h[Len(h)].DeltaMillis > lastNonwhite
              /\ HasEventAtOrBefore(h, lastNonwhite)
              /\ h[Len(h)].ColorIndex # PixelDataAt(tdata, rc[1], rc[2])

\* The dataset coordinate the claim maps a tile coordinate to.
MappedCoord(v, z) == (v * tdata.globalScale) \div Pow2(z)

\* C10: window.At returns transparent, without indexing the pixel buffer, when
\* the mapped coordinate is outside [0, CanvasSize) on either axis, and
\* otherwise the palette color of PixelData[pY][pX].
C10_AtGuardsCanvasBounds ==
    sample # <<>> =>
        LET pX == MappedCoord(sample.x, sample.z)
            pY == MappedCoord(sample.y, sample.z)
            idx == PixelDataAt(tdata, pY, pX)
        IN  IF pX < 0 \/ pY < 0 \/ pX >= tds.Size \/ pY >= tds.Size
            THEN sample.out.kind = "transparent" /\ ~sample.out.indexed
            ELSE idx < Len(tdata.palette) =>
                    /\ sample.out.kind = "color"
                    /\ sample.out.color = tdata.palette[idx + 1]

\* C10's case: in the tile straddling the canvas edge, a pixel mapped just
\* outside the canvas (inside the buffer's allocation) is transparent, over a
\* Dataset whose last in-canvas pixel has a shown color other than index 0.
C10_Witness ==
    /\ sample # <<>>
    /\ MappedCoord(sample.x, sample.z) = tds.Size
    /\ MappedCoord(sample.x, sample.z) < tdata.size
    /\ sample.out.kind = "transparent"
    /\ PixelDataAt(tdata, tds.Size - 1, tds.Size - 1) > 0

----------------------------------------------------------------------------
(* timelapse.renderFrames                                                  *)

\* The most records a rendered history holds, its latest time, and the
\* frameAggregation in milliseconds (10 minutes in Handler).
MaxEvents == 3
MaxTime == 4
Bucket == 2

Dimension == 1001
TrailerFrames == 100

\* Records of the timelapse: UnixMillis, X, Y, Color.
RenderPlaces == { <<0, 0>>, <<1, 0>> }
RenderColors == { 1, 2 }
RenderEvents ==
    { [UnixMillis |-> t, X |-> p[1], Y |-> p[2], Color |-> c] :
        t \in 0 .. MaxTime, p \in RenderPlaces, c \in RenderColors }

\* sortByTime leaves the records ascending by UnixMillis, ties in any order.
SortedByTime(recs) ==
    \A i \in 1 .. (Len(recs) - 1) : recs[i].UnixMillis <= recs[i + 1].UnixMillis

PixIndex(rec) == rec.Y * Dimension + rec.X

PixAt(pixels, idx) == IF idx \in DOMAIN pixels THEN pixels[idx] ELSE 0

\* The inner loop: consume the records before endDeltaMillis.
RECURSIVE ConsumeBucket(_, _, _)
ConsumeBucket(pend, pixels, endDeltaMillis) ==
    IF Len(pend) = 0 THEN [pending |-> pend, pixels |-> pixels]
    ELSE LET current == pend[1]
         IN  IF current.UnixMillis >= endDeltaMillis
             THEN [pending |-> pend, pixels |-> pixels]
             ELSE ConsumeBucket(Tail(pend),
                                (PixIndex(current) :> current.Color) @@ pixels,
                                endDeltaMillis)

\* Mutant of BucketEnd: the bucket ends one millisecond late, so its boundary is inclusive.
BucketEndInclusive(pend) == pend[1].UnixMillis + Bucket + 1

\* endDeltaMillis := pending[0].UnixMillis + frameAggregation.Milliseconds()
BucketEnd(pend) == pend[1].UnixMillis + Bucket

\* The buffers renderFrames allocates are numbered in the order of their
\* allocation: the make is buffer 1, and the clone after the k-th frame is
\* buffer k + 1, which `pixels` points to from then on.
CurrentBuf(frames) == Len(frames) + 1

\* The frames after the writes of a bucket to buffer buf left it as pixels: a
\* frame's Pix is the content of the buffer it points to.
AfterWrites(frames, buf, pixels) ==
    [k \in DOMAIN frames |->
        IF frames[k].buf = buf THEN [frames[k] EXCEPT !.Pix = pixels] ELSE frames[k]]

\* Mutant of RenderBucketOf: without the clone, every frame points to the one
\* buffer the loop goes on writing to.
RenderBucketOfNoClone(pend, pixels, frames) ==
    LET c == ConsumeBucket(pend, pixels, BucketEnd(pend))
    IN  [pending |-> c.pending, pixels |-> c.pixels,
         frames |-> Append(AfterWrites(frames, 1, c.pixels),
                           [Pix |-> c.pixels, buf |-> 1, edge |-> pend[1].UnixMillis + Bucket])]

\* One iteration of `for len(pending) > 0`: the bucket's records are written
\* to the buffer pixels points to, the frame is made with Pix pointing to that
\* buffer, and pixels is set to a clone.
\* History: the frame is listed with the upper edge of the bucket it was made
\* for, the bucket's width after its first record.
RenderBucketOf(pend, pixels, frames) ==
    LET c == ConsumeBucket(pend, pixels, BucketEnd(pend))
    IN  [pending |-> c.pending, pixels |-> c.pixels,
         frames |-> Append(AfterWrites(frames, CurrentBuf(frames), c.pixels),
                           [Pix |-> c.pixels, buf |-> CurrentBuf(frames),
                            edge |-> pend[1].UnixMillis + Bucket])]

\* Mutant of WithTrailer: the trailer repeats the first frame.
WithTrailerOfFirst(frames) ==
    frames \o [i \in 1 .. TrailerFrames |-> frames[1]]

\* The trailer: TrailerFrames more references to the last frame.
WithTrailer(frames) ==
    frames \o [i \in 1 .. TrailerFrames |-> frames[Len(frames)]]

RenderInit ==
    /\ \E n \in 0 .. MaxEvents :
          \E recs \in { r \in [1 .. n -> RenderEvents] : SortedByTime(r) } :
             /\ rrecords = recs
             /\ rpending = recs
    /\ rpixels = << >>
    /\ rframes = << >>
    /\ rpc = "loop"

RenderBucket ==
    /\ rpc = "loop"
    /\ Len(rpending) > 0
    /\ LET b == RenderBucketOf(rpending, rpixels, rframes)
       IN  /\ rpending' = b.pending
           /\ rpixels' = b.pixels
           /\ rframes' = b.frames
    /\ UNCHANGED <<rrecords, rpc>>
    /\ UNCHANGED <<dlVars, futVars, tileVars, handlerVars, cacheVars, ingestVars, moreVars>>

\* `last := frames[len(frames)-1]` panics when no frame was made.
RenderTrailer ==
    /\ rpc = "loop"
    /\ Len(rpending) = 0
    /\ IF Len(rframes) = 0
       THEN rpc' = "panic" /\ UNCHANGED rframes
       ELSE rpc' = "done" /\ rframes' = WithTrailer(rframes)
    /\ UNCHANGED <<rrecords, rpending, rpixels>>
    /\ UNCHANGED <<dlVars, futVars, tileVars, handlerVars, cacheVars, ingestVars, moreVars>>

RenderNext ==
    \/ RenderBucket
    \/ RenderTrailer

InitRender == RenderInit /\ DlIdle /\ FutIdle /\ TileIdle /\ HandlerIdle /\ CacheIdle /\ IngestIdle /\ MoreIdle

SpecRender == InitRender /\ [][RenderNext]_vars

----------------------------------------------------------------------------
(* Claims about renderFrames                                               *)

\* The records at pixel index idx placed strictly before edge, by position.
PlacedBefore(idx, edge) ==
    { i \in DOMAIN rrecords :
        PixIndex(rrecords[i]) = idx /\ rrecords[i].UnixMillis < edge }

MaxIndex(S) == CHOOSE i \in S : \A j \in S : j <= i

RenderPixels == { PixIndex([X |-> p[1], Y |-> p[2]]) : p \in RenderPlaces }

\* C11: every frame shows at every pixel the color of the latest record at
\* that pixel placed strictly before the upper edge the frame was made for (the
\* background where there is none), so no record at or after the edge shows.
C11_FrameShowsLatestBeforeEdge ==
    \A k \in DOMAIN rframes :
        \A idx \in RenderPixels :
            LET S == PlacedBefore(idx, rframes[k].edge)
            IN  PixAt(rframes[k].Pix, idx) =
                    IF S = {} THEN 0 ELSE rrecords[MaxIndex(S)].Color

\* The example of C11, scaled to the bucket: two records of different colors
\* at (0,0), the second within the bucket after the first one's; the first
\* frame shows the first color and the second frame the second.
C11_Witness ==
    /\ rpc = "done"
    /\ Len(rrecords) = 2
    /\ rrecords[1].UnixMillis = 0
    /\ rrecords[2].UnixMillis >= Bucket /\ rrecords[2].UnixMillis < 2 * Bucket
    /\ PixAt(rframes[1].Pix, 0) = 1
    /\ PixAt(rframes[2].Pix, 0) = 2

\* The real frames: all but the trailer.
RealFrames == Len(rframes) - TrailerFrames

\* C12: when renderFrames is through there is one real frame per bucket of
\* fixed width from the first record's time through the last record's time,
\* frame k made for the boundary at k bucket widths after the start.
C12_OneFramePerFixedBucket ==
    rpc = "done" =>
        LET epoch == rrecords[1].UnixMillis
            end == rrecords[Len(rrecords)].UnixMillis
        IN  /\ RealFrames = ((end - epoch) \div Bucket) + 1
            /\ \A k \in 1 .. RealFrames : rframes[k].edge = epoch + k * Bucket

----------------------------------------------------------------------------
(* timelapse.Handler                                                       *)

NumRequests == 2
Requests == 1 .. NumRequests

\* The suffix of a request's path: the two cases of the switch, and neither.
Kinds == { "gif", "apng", "other" }
Encodings == { "gif", "apng" }

RECURSIVE RenderLoop(_, _, _)
RenderLoop(pend, pixels, frames) ==
    IF Len(pend) = 0 THEN frames
    ELSE LET b == RenderBucketOf(pend, pixels, frames)
         IN  RenderLoop(b.pending, b.pixels, b.frames)

\* renderFrames(records, 10*time.Minute) as a whole.
renderFrames(records) ==
    LET fr == RenderLoop(records, << >>, << >>)
    IN  IF Len(fr) = 0 THEN [panic |-> TRUE, frames |-> << >>]
        ELSE [panic |-> FALSE, frames |-> WithTrailer(fr)]

\* The records the future channel may deliver.
HandlerInputs ==
    { << >>,
      << [UnixMillis |-> 0, X |-> 0, Y |-> 0, Color |-> 1] >>,
      << [UnixMillis |-> 0, X |-> 0, Y |-> 0, Color |-> 1],
         [UnixMillis |-> Bucket, X |-> 0, Y |-> 0, Color |-> 2] >> }

\* writeGIF / writeAPNG: the animation of the frames, in the container's format.
Encoded(k, frames) ==
    [format |-> k, delay |-> IF k = "gif" THEN 3 ELSE 30,
     images |-> [i \in DOMAIN frames |-> frames[i].Pix]]

NoResponse == [status |-> 0, ctype |-> "", body |-> << >>]

HandlerInit ==
    /\ hfuture = << >>
    /\ hpc = "recv"
    /\ hframes = << >>
    /\ hready = FALSE
    /\ renderCalls = 0
    /\ once = [k \in Encodings |-> "idle"]
    /\ hdata = [k \in Encodings |-> << >>]
    /\ encodes = [k \in Encodings |-> 0]
    /\ hexited = FALSE
    /\ qpc = [q \in Requests |-> "idle"]
    /\ qkind = [q \in Requests |-> "other"]
    /\ qctx = [q \in Requests |-> FALSE]
    /\ qresp = [q \in Requests |-> NoResponse]

\* The loader sends the records on the future channel, which buffers them.
FutureSend ==
    /\ ~hexited
    /\ hfuture = << >>
    /\ \E recs \in HandlerInputs : hfuture' = << recs >>
    /\ UNCHANGED <<hpc, hframes, hready, renderCalls, once, hdata, encodes, hexited,
                   qpc, qkind, qctx, qresp>>
    /\ UNCHANGED <<dlVars, futVars, tileVars, renderVars, cacheVars, ingestVars, moreVars>>

\* records := <-future; future <- records
HandlerRecv ==
    /\ ~hexited
    /\ hpc = "recv"
    /\ hfuture # << >>
    /\ hpc' = "render"
    /\ UNCHANGED <<hfuture, hframes, hready, renderCalls, once, hdata, encodes, hexited,
                   qpc, qkind, qctx, qresp>>
    /\ UNCHANGED <<dlVars, futVars, tileVars, renderVars, cacheVars, ingestVars, moreVars>>

\* frames = renderFrames(records, ...), then the deferred close(ready).  A
\* panic in renderFrames ends the process.
HandlerRender ==
    /\ ~hexited
    /\ hpc = "render"
    /\ renderCalls' = renderCalls + 1
    /\ LET r == renderFrames(hfuture[1])
       IN  IF r.panic
           THEN /\ hexited' = TRUE
                /\ UNCHANGED <<hframes, hready, hpc>>
           ELSE /\ hframes' = r.frames
                /\ hready' = TRUE
                /\ hpc' = "done"
                /\ UNCHANGED hexited
    /\ UNCHANGED <<hfuture, once, hdata, encodes, qpc, qkind, qctx, qresp>>
    /\ UNCHANGED <<dlVars, futVars, tileVars, renderVars, cacheVars, ingestVars, moreVars>>

\* A request arrives at the handler's select.
ReqArrive(q) ==
    /\ ~hexited
    /\ qpc[q] = "idle"
    /\ \E k \in Kinds : qkind' = [qkind EXCEPT ![q] = k]
    /\ qpc' = [qpc EXCEPT ![q] = "select"]
    /\ UNCHANGED <<hfuture, hpc, hframes, hready, renderCalls, once, hdata, encodes,
                   hexited, qctx, qresp>>
    /\ UNCHANGED <<dlVars, futVars, tileVars, renderVars, cacheVars, ingestVars, moreVars>>

\* The request's context is cancelled while it waits.
ReqCancel(q) ==
    /\ ~hexited
    /\ qpc[q] = "select"
    /\ ~qctx[q]
    /\ qctx' = [qctx EXCEPT ![q] = TRUE]
    /\ UNCHANGED <<hfuture, hpc, hframes, hready, renderCalls, once, hdata, encodes,
                   hexited, qpc, qkind, qresp>>
    /\ UNCHANGED <<dlVars, futVars, tileVars, renderVars, cacheVars, ingestVars, moreVars>>

\* case <-r.Context().Done()
ReqNotReady(q) ==
    /\ ~hexited
    /\ qpc[q] = "select"
    /\ qctx[q]
    /\ qpc' = [qpc EXCEPT ![q] = "notready"]
    /\ qresp' = [qresp EXCEPT ![q] = [status |-> 503, ctype |-> "text/plain", body |-> << >>]]
    /\ UNCHANGED <<hfuture, hpc, hframes, hready, renderCalls, once, hdata, encodes,
                   hexited, qkind, qctx>>
    /\ UNCHANGED <<dlVars, futVars, tileVars, renderVars, cacheVars, ingestVars, moreVars>>

\* case <-ready, and the switch on the path's suffix.
ReqReady(q) ==
    /\ ~hexited
    /\ qpc[q] = "select"
    /\ hready
    /\ IF qkind[q] \in Encodings
       THEN qpc' = [qpc EXCEPT ![q] = "once"] /\ UNCHANGED qresp
       ELSE /\ qpc' = [qpc EXCEPT ![q] = "served"]
            /\ qresp' = [qresp EXCEPT ![q] = [status |-> 200, ctype |-> "", body |-> << >>]]
    /\ UNCHANGED <<hfuture, hpc, hframes, hready, renderCalls, once, hdata, encodes,
                   hexited, qkind, qctx>>
    /\ UNCHANGED <<dlVars, futVars, tileVars, renderVars, cacheVars, ingestVars, moreVars>>

\* Mutant of OnceDo: the function is run by every caller.
OnceDoAlways(q) ==
    /\ ~hexited
    /\ qpc[q] = "once"
    /\ once[qkind[q]] # "running"
    /\ once' = [once EXCEPT ![qkind[q]] = "running"]
    /\ qpc' = [qpc EXCEPT ![q] = "encode"]
    /\ UNCHANGED <<hfuture, hpc, hframes, hready, renderCalls, hdata, encodes,
                   hexited, qkind, qctx, qresp>>
    /\ UNCHANGED <<dlVars, futVars, tileVars, renderVars, cacheVars, ingestVars, moreVars>>

\* gifOnce.Do / apngOnce.Do: the first caller runs the function, a caller that
\* finds it running waits for it, a later caller returns at once.
OnceDo(q) ==
    /\ ~hexited
    /\ qpc[q] = "once"
    /\ once[qkind[q]] # "running"
    /\ IF once[qkind[q]] = "idle"
       THEN /\ once' = [once EXCEPT ![qkind[q]] = "running"]
            /\ qpc' = [qpc EXCEPT ![q] = "encode"]
       ELSE /\ qpc' = [qpc EXCEPT ![q] = "write"]
            /\ UNCHANGED once
    /\ UNCHANGED <<hfuture, hpc, hframes, hready, renderCalls, hdata, encodes,
                   hexited, qkind, qctx, qresp>>
    /\ UNCHANGED <<dlVars, futVars, tileVars, renderVars, cacheVars, ingestVars, moreVars>>

\* writeGIF / writeAPNG inside the Once: the encoder fills the buffer, or its
\* error ends the process (glog.Fatalf).
ReqEncode(q) ==
    /\ ~hexited
    /\ qpc[q] = "encode"
    /\ encodes' = [encodes EXCEPT ![qkind[q]] = @ + 1]
    /\ \E ok \in BOOLEAN :
          IF ok
          THEN /\ hdata' = [hdata EXCEPT ![qkind[q]] = Encoded(qkind[q], hframes)]
               /\ once' = [once EXCEPT ![qkind[q]] = "done"]
               /\ qpc' = [qpc EXCEPT ![q] = "write"]
               /\ UNCHANGED hexited
          ELSE /\ hexited' = TRUE
               /\ UNCHANGED <<hdata, once, qpc>>
    /\ UNCHANGED <<hfuture, hpc, hframes, hready, renderCalls, qkind, qctx, qresp>>
    /\ UNCHANGED <<dlVars, futVars, tileVars, renderVars, cacheVars, ingestVars, moreVars>>

\* writeBuffer
ReqWrite(q) ==
    /\ ~hexited
    /\ qpc[q] = "write"
    /\ qresp' = [qresp EXCEPT ![q] = [status |-> 200, ctype |-> qkind[q], body |-> hdata[qkind[q]]]]
    /\ qpc' = [qpc EXCEPT ![q] = "served"]
    /\ UNCHANGED <<hfuture, hpc, hframes, hready, renderCalls, once, hdata, encodes,
                   hexited, qkind, qctx>>
    /\ UNCHANGED <<dlVars, futVars, tileVars, renderVars, cacheVars, ingestVars, moreVars>>

HandlerNext ==
    \/ FutureSend
    \/ HandlerRecv
    \/ HandlerRender
    \/ \E q \in Requests : ReqArrive(q)
    \/ \E q \in Requests : ReqCancel(q)
    \/ \E q \in Requests : ReqNotReady(q)
    \/ \E q \in Requests : ReqReady(q)
    \/ \E q \in Requests : OnceDo(q)
    \/ \E q \in Requests : ReqEncode(q)
    \/ \E q \in Requests : ReqWrite(q)

InitTimelapse == HandlerInit /\ DlIdle /\ FutIdle /\ TileIdle /\ RenderIdle /\ CacheIdle /\ IngestIdle /\ MoreIdle

SpecTimelapse == InitTimelapse /\ [][HandlerNext]_vars

\* C13: renderFrames is called at most once, and exactly once by the time ready
\* is closed, however many requests are waiting; writeGIF and writeAPNG are each
\* called at most once; every request served an animation got the one encoding
\* of the shared frames.
C13_RenderAndEncodeOnce ==
    /\ renderCalls <= 1
    /\ hready => renderCalls = 1
    /\ \A k \in Encodings : encodes[k] <= 1
    /\ \A q \in Requests :
          (qpc[q] = "served" /\ qkind[q] \in Encodings)
              => /\ encodes[qkind[q]] = 1
                 /\ qresp[q].body = Encoded(qkind[q], hframes)
                 /\ qresp[q].body = hdata[qkind[q]]

\* Every request asked for the GIF before the frames were ready and was served it.
C13_Witness ==
    /\ \A q \in Requests : qpc[q] = "served" /\ qkind[q] = "gif" /\ qresp[q].body # << >>
    /\ renderCalls = 1
    /\ encodes["gif"] = 1
    /\ Len(hframes) = 2 + TrailerFrames

----------------------------------------------------------------------------
(* The cache file: Dataset.SaveTo, dataset.Load and main.loadDataset       *)

FileSuffix == ".gob.gz"

\* filepath.Join(cacheDir, "place_data_<year>" + FileSuffix)
datasetFile == [stem |-> "place_data_2017", suffix |-> FileSuffix]

\* strings.HasSuffix(name, FileSuffix)
HasSuffix(name) == name.suffix = FileSuffix

\* The exported fields of Dataset, which gob transmits.
GobNames == { "Version", "Size", "Palette", "Epoch", "Start", "End", "ChunkStride",
              "UserIDs", "Chunks" }

FieldOf(d, n) ==
    CASE n = "Version" -> d.Version
      [] n = "Size" -> d.Size
      [] n = "Palette" -> d.Palette
      [] n = "Epoch" -> d.Epoch
      [] n = "Start" -> d.Start
      [] n = "End" -> d.End
      [] n = "ChunkStride" -> d.ChunkStride
      [] n = "UserIDs" -> d.UserIDs
      [] n = "Chunks" -> d.Pixels

\* The zero value of each field's type.
ZeroOf(n) ==
    CASE n = "Version" -> ""
      [] n \in { "Size", "ChunkStride" } -> 0
      [] n = "Chunks" -> EmptyPixels
      [] OTHER -> << >>

EventNames == { "DeltaMillis", "UserIndex", "ColorIndex" }

\* gob sends a struct as its fields that are not zero.
EncodeEvent(ev) == [n \in { n \in EventNames : ev[n] # 0 } |-> ev[n]]

\* gob decodes into a zero struct: a field that was not sent stays zero.
DecodeEvent(msg) == [n \in EventNames |-> IF n \in DOMAIN msg THEN msg[n] ELSE 0]

EncodeValue(n, v) ==
    IF n = "Chunks"
    THEN [k \in DOMAIN v |-> [i \in DOMAIN v[k] |-> EncodeEvent(v[k][i])]]
    ELSE v

DecodeValue(n, v) ==
    IF n = "Chunks"
    THEN [k \in DOMAIN v |-> [i \in DOMAIN v[k] |-> DecodeEvent(v[k][i])]]
    ELSE v

\* Mutant of GobEncode: the user list is not transmitted.
GobEncodeWithoutUsers(d) ==
    [n \in { n \in GobNames \ { "UserIDs" } : FieldOf(d, n) # ZeroOf(n) } |->
        EncodeValue(n, FieldOf(d, n))]

\* enc.Encode(d)
GobEncode(d) ==
    [n \in { n \in GobNames : FieldOf(d, n) # ZeroOf(n) } |-> EncodeValue(n, FieldOf(d, n))]

\* dec.Decode(&ds) of a Dataset message
GobDecode(msg) ==
    [Version |-> IF "Version" \in DOMAIN msg THEN msg["Version"] ELSE ZeroOf("Version"),
     Size |-> IF "Size" \in DOMAIN msg THEN msg["Size"] ELSE ZeroOf("Size"),
     Palette |-> IF "Palette" \in DOMAIN msg THEN msg["Palette"] ELSE ZeroOf("Palette"),
     Epoch |-> IF "Epoch" \in DOMAIN msg THEN msg["Epoch"] ELSE ZeroOf("Epoch"),
     Start |-> IF "Start" \in DOMAIN msg THEN msg["Start"] ELSE ZeroOf("Start"),
     End |-> IF "End" \in DOMAIN msg THEN msg["End"] ELSE ZeroOf("End"),
     ChunkStride |-> IF "ChunkStride" \in DOMAIN msg THEN msg["ChunkStride"]
                     ELSE ZeroOf("ChunkStride"),
     UserIDs |-> IF "UserIDs" \in DOMAIN msg THEN msg["UserIDs"] ELSE ZeroOf("UserIDs"),
     Pixels |-> IF "Chunks" \in DOMAIN msg THEN DecodeValue("Chunks", msg["Chunks"])
                ELSE ZeroOf("Chunks")]

\* A file: whether it exists, whether it starts as a gzip stream, whether the
\* stream holds a gob message of a Dataset, that message, and whether the
\* message is all there.
Blob(gz, gob, msg, whole) ==
    [exists |-> TRUE, gz |-> gz, gob |-> gob, msg |-> msg, whole |-> whole]
Absent == [exists |-> FALSE, gz |-> FALSE, gob |-> FALSE, msg |-> EmptyMap, whole |-> FALSE]

\* What writeTemp leaves in the temporary file once it is flushed.
BlobOf(d) == Blob(TRUE, TRUE, GobEncode(d), TRUE)

\* The temporary file while the encoder is writing.
PartialBlobOf(d) == Blob(TRUE, TRUE, GobEncode(d), FALSE)

LoadResult(ds, err) == [ok |-> err = "nil", ds |-> ds, err |-> err]
NoDataset == << >>

\* Mutant of Load: the Version of the decoded Dataset is not compared.
LoadAnyVersion(name, f) ==
    IF ~HasSuffix(name) THEN LoadResult(NoDataset, "suffix")
    ELSE IF ~f.exists THEN LoadResult(NoDataset, "open")
    ELSE IF ~f.gz THEN LoadResult(NoDataset, "gzip")
    ELSE IF ~f.gob \/ ~f.whole THEN LoadResult(NoDataset, "decode")
    ELSE LoadResult(GobDecode(f.msg), "nil")

\* dataset.Load
Load(name, f) ==
    IF ~HasSuffix(name) THEN LoadResult(NoDataset, "suffix")
    ELSE IF ~f.exists THEN LoadResult(NoDataset, "open")
    ELSE IF ~f.gz THEN LoadResult(NoDataset, "gzip")
    ELSE IF ~f.gob \/ ~f.whole THEN LoadResult(NoDataset, "decode")
    ELSE IF GobDecode(f.msg).Version # Version THEN LoadResult(NoDataset, "version")
    ELSE LoadResult(GobDecode(f.msg), "nil")

\* The Dataset a Download of the given records returns (one cell per record
\* sequence here has at most two events of different times).
DownloadOf(recs) ==
    LET d == addAll(NewPartial(CanvasSize2017), recs)
    IN  finalize(d, CHOOSE sorted \in SortedPixels(d.Pixels) : TRUE)

CacheRecA == [Timestamp |-> 1, UserHash |-> "alice", X |-> 0, Y |-> 0, Color |-> 5]
CacheRecB == [Timestamp |-> 0, UserHash |-> "bob", X |-> 0, Y |-> 0, Color |-> 3]
CacheRecC == [Timestamp |-> 2, UserHash |-> "alice", X |-> 1000, Y |-> 1000, Color |-> 5]

\* The Datasets in play: none, one with a single all-zero event, and larger ones.
CacheDatasets ==
    { DownloadOf(<< >>), DownloadOf(<< CacheRecB >>), DownloadOf(<< CacheRecA, CacheRecB >>),
      DownloadOf(<< CacheRecA, CacheRecB, CacheRecC >>) }

\* The exported part of a Dataset, as Load returns it.
Exported(d) == GobDecode(GobEncode(d))

\* What the cache path may hold when the process starts: nothing, a cache an
\* earlier run saved, one of an older encoding, or a damaged file.
OlderVersion(d) == [d EXCEPT !.Version = "rplacemap-encoding-v1"]
InitialFiles ==
    { Absent,
      BlobOf(DownloadOf(<< CacheRecA, CacheRecB >>)),
      BlobOf(OlderVersion(DownloadOf(<< CacheRecA >>))),
      Blob(FALSE, FALSE, EmptyMap, TRUE),
      Blob(TRUE, FALSE, EmptyMap, TRUE),
      PartialBlobOf(DownloadOf(<< CacheRecA >>)) }

\* What Download returns to loadDataset.
DownloadResults ==
    { LoadResult(d, "nil") : d \in CacheDatasets } \cup { LoadResult(NoDataset, "download") }

CacheInit ==
    /\ cflag \in BOOLEAN
    /\ cfile0 \in InitialFiles
    /\ cfile = cfile0
    /\ ctemp = Absent
    /\ cdl \in DownloadResults
    /\ ldpc = "stat"
    /\ ldres = << >>
    /\ ldload = << >>
    /\ croot = << >>
    /\ svpc = "idle"
    /\ crashed = FALSE
    /\ reloaded = << >>

CacheRest == <<dlVars, futVars, tileVars, renderVars, handlerVars, ingestVars, moreVars>>

\* loadDataset up to the branch: MkdirAll, then os.Stat of the cache path.  Stat
\* of an existing file may fail for another reason than its absence.
LdStat ==
    /\ ~crashed
    /\ ldpc = "stat"
    /\ \E mkdir \in BOOLEAN, stat \in BOOLEAN :
          IF ~mkdir
          THEN ldpc' = "returned" /\ ldres' = LoadResult(NoDataset, "mkdir")
          ELSE IF ~cfile.exists \/ cflag
          THEN ldpc' = "download" /\ UNCHANGED ldres
          ELSE IF ~stat
          THEN ldpc' = "returned" /\ ldres' = LoadResult(NoDataset, "stat")
          ELSE ldpc' = "load" /\ UNCHANGED ldres
    /\ UNCHANGED <<cflag, cfile, cfile0, ctemp, cdl, ldload, croot, svpc, crashed, reloaded>>
    /\ UNCHANGED CacheRest

\* The download branch: Download, and on success the goroutine that saves.
LdDownload ==
    /\ ~crashed
    /\ ldpc = "download"
    /\ ldres' = cdl
    /\ ldpc' = "returned"
    /\ svpc' = IF cdl.ok THEN "create" ELSE svpc
    /\ UNCHANGED <<cflag, cfile, cfile0, ctemp, cdl, ldload, croot, crashed, reloaded>>
    /\ UNCHANGED CacheRest

\* The cache branch: dataset.Load, whose error loadDataset returns.
LdLoad ==
    /\ ~crashed
    /\ ldpc = "load"
    /\ ldload' = Load(datasetFile, cfile)
    /\ ldres' = IF Load(datasetFile, cfile).ok THEN Load(datasetFile, cfile)
                ELSE LoadResult(NoDataset, "load")
    /\ ldpc' = "returned"
    /\ UNCHANGED <<cflag, cfile, cfile0, ctemp, cdl, croot, svpc, crashed, reloaded>>
    /\ UNCHANGED CacheRest

\* main: futureDataset.Provide(loadDataset())
MainProvide ==
    /\ ~crashed
    /\ ldpc = "returned"
    /\ croot = << >>
    /\ croot' = ldres
    /\ UNCHANGED <<cflag, cfile, cfile0, ctemp, cdl, ldpc, ldres, ldload, svpc, crashed, reloaded>>
    /\ UNCHANGED CacheRest

\* SaveTo's suffix check and writeTemp's os.CreateTemp.
SaveCreate ==
    /\ ~crashed
    /\ svpc = "create"
    /\ \E ok \in BOOLEAN :
          IF ok /\ HasSuffix(datasetFile)
          THEN svpc' = "encode" /\ ctemp' = Blob(FALSE, FALSE, EmptyMap, FALSE)
          ELSE svpc' = "failed" /\ UNCHANGED ctemp
    /\ UNCHANGED <<cflag, cfile, cfile0, cdl, ldpc, ldres, ldload, croot, crashed, reloaded>>
    /\ UNCHANGED CacheRest

\* Mutant of SaveEncode: the encoder writes to the output path.
SaveEncodeInPlace ==
    /\ ~crashed
    /\ svpc = "encode"
    /\ cfile' = PartialBlobOf(cdl.ds)
    /\ svpc' = "flush"
    /\ UNCHANGED <<cflag, cfile0, ctemp, cdl, ldpc, ldres, ldload, croot, crashed, reloaded>>
    /\ UNCHANGED CacheRest

\* enc.Encode(d) through the gzip writer and the buffer into the temporary file.
SaveEncode ==
    /\ ~crashed
    /\ svpc = "encode"
    /\ \E ok \in BOOLEAN :
          IF ok
          THEN svpc' = "flush" /\ ctemp' = PartialBlobOf(cdl.ds)
          ELSE svpc' = "failed" /\ UNCHANGED ctemp
    /\ UNCHANGED <<cflag, cfile, cfile0, cdl, ldpc, ldres, ldload, croot, crashed, reloaded>>
    /\ UNCHANGED CacheRest

\* compression.Close() and writeBuffer.Flush()
SaveFlush ==
    /\ ~crashed
    /\ svpc = "flush"
    /\ \E ok \in BOOLEAN :
          IF ok
          THEN svpc' = "sync" /\ ctemp' = BlobOf(cdl.ds)
          ELSE svpc' = "failed" /\ UNCHANGED ctemp
    /\ UNCHANGED <<cflag, cfile, cfile0, cdl, ldpc, ldres, ldload, croot, crashed, reloaded>>
    /\ UNCHANGED CacheRest

\* f.Sync() and f.Close()
SaveSync ==
    /\ ~crashed
    /\ svpc = "sync"
    /\ \E ok \in BOOLEAN : svpc' = IF ok THEN "rename" ELSE "failed"
    /\ UNCHANGED <<cflag, cfile, cfile0, ctemp, cdl, ldpc, ldres, ldload, croot, crashed,
                   reloaded>>
    /\ UNCHANGED CacheRest

\* os.Rename(tempFile, outputFile), and the deferred os.Remove(tempFile).
SaveRename ==
    /\ ~crashed
    /\ svpc = "rename"
    /\ \E ok \in BOOLEAN :
          IF ok
          THEN svpc' = "done" /\ cfile' = ctemp
          ELSE svpc' = "failed" /\ UNCHANGED cfile
    /\ ctemp' = Absent
    /\ UNCHANGED <<cflag, cfile0, cdl, ldpc, ldres, ldload, croot, crashed, reloaded>>
    /\ UNCHANGED CacheRest

\* SaveTo returned an error: os.Remove(datasetFile) in loadDataset's goroutine.
SaveRemove ==
    /\ ~crashed
    /\ svpc = "failed"
    /\ cfile' = Absent
    /\ svpc' = "removed"
    /\ UNCHANGED <<cflag, cfile0, ctemp, cdl, ldpc, ldres, ldload, croot, crashed, reloaded>>
    /\ UNCHANGED CacheRest

\* The process is killed.
Crash ==
    /\ ~crashed
    /\ crashed' = TRUE
    /\ UNCHANGED <<cflag, cfile, cfile0, ctemp, cdl, ldpc, ldres, ldload, croot, svpc, reloaded>>
    /\ UNCHANGED CacheRest

\* A later run loads the file SaveTo has put in place.
Reload ==
    /\ svpc = "done"
    /\ reloaded = << >>
    /\ reloaded' = Load(datasetFile, cfile)
    /\ UNCHANGED <<cflag, cfile, cfile0, ctemp, cdl, ldpc, ldres, ldload, croot, svpc, crashed>>
    /\ UNCHANGED CacheRest

CacheNext ==
    \/ LdStat
    \/ LdDownload
    \/ LdLoad
    \/ MainProvide
    \/ SaveCreate
    \/ SaveEncode
    \/ SaveFlush
    \/ SaveSync
    \/ SaveRename
    \/ SaveRemove
    \/ Crash
    \/ Reload

InitCache == CacheInit /\ DlIdle /\ FutIdle /\ TileIdle /\ RenderIdle /\ HandlerIdle /\ IngestIdle /\ MoreIdle

SpecCache == InitCache /\ [][CacheNext]_vars

----------------------------------------------------------------------------
(* Claims about the cache file                                             *)

\* C14: when the cache file exists and dataset.Load fails on it, loadDataset
\* returns the Dataset of a fresh Download and no error.
C14_LoadFailureFallsBack ==
    (ldpc = "returned" /\ ldload # << >> /\ ~ldload.ok)
        => (ldres.ok /\ ldres = cdl)

\* C15: the Dataset future is never given a Dataset of another Version without
\* an error: Load returns an error and no Dataset when the decoded Version
\* differs, and a Dataset from Download carries the current Version.
C15_ResolvedVersionIsCurrent ==
    /\ (croot # << >> /\ croot.ok) => croot.ds.Version = Version
    /\ (ldload # << >> /\ cfile0.gz /\ cfile0.gob /\ cfile0.whole
            /\ GobDecode(cfile0.msg).Version # Version)
          => (~ldload.ok /\ ldload.ds = NoDataset)
    /\ (ldres # << >> /\ ldres.ok /\ ldload = << >>) => ldres.ds.Version = Version

\* The cache is of the older encoding; Load refused it and the future got an error.
C15_Witness ==
    /\ cfile0.exists /\ cfile0.gob /\ cfile0.whole
    /\ GobDecode(cfile0.msg).Version # Version
    /\ ldload # << >> /\ ldload.err = "version"
    /\ croot # << >> /\ ~croot.ok

\* SaveTo has been called and has not returned an error to its caller yet.
InSaveTo == svpc \in { "create", "encode", "flush", "sync", "rename", "done" }

----------------------------------------------------------------------------
(* Ingestion of many colors: partialDataset.add and finalize in Download   *)

\* The most records ingested, each of a color not seen before.
MaxIngest == 258

\* Dataset2022.CanvasSize: the Source whose lines carry arbitrary colors.
CanvasSize2022 == 2000

IngestInit ==
    /\ iprep = NewPartial(CanvasSize2022)
    /\ ipc = "ingest"
    /\ iout = << >>

IngestedEvents(d) == Cardinality(DOMAIN d.Pixels)

\* The n-th record a 2022 shard line yields: a new pixel, a new color.
IngestRecord(n) ==
    [Timestamp |-> 1, UserHash |-> "alice", X |-> n, Y |-> 0, Color |-> n]

\* prep.add(rec) in the coordinator's loop
IngestAdd ==
    /\ ipc = "ingest"
    /\ IngestedEvents(iprep) < MaxIngest
    /\ iprep' = add(iprep, IngestRecord(IngestedEvents(iprep)))
    /\ UNCHANGED <<ipc, iout>>
    /\ UNCHANGED <<dlVars, futVars, tileVars, renderVars, handlerVars, cacheVars, moreVars>>

\* `return &out, nil` and the deferred prep.finalize(): its glog.Fatalf ends
\* the process before Download's caller gets the Dataset.
IngestReturn ==
    /\ ipc = "ingest"
    /\ \E sorted \in SortedPixels(iprep.Pixels) :
          LET d == finalize(iprep, sorted)
          IN  /\ iprep' = d
              /\ IF d.fatal
                 THEN ipc' = "fatal" /\ UNCHANGED iout
                 ELSE ipc' = "returned" /\ iout' = d
    /\ UNCHANGED <<dlVars, futVars, tileVars, renderVars, handlerVars, cacheVars, moreVars>>

IngestNext ==
    \/ IngestAdd
    \/ IngestReturn

InitIngest == IngestInit /\ DlIdle /\ FutIdle /\ TileIdle /\ RenderIdle /\ HandlerIdle /\ CacheIdle /\ MoreIdle

SpecIngest == InitIngest /\ [][IngestNext]_vars

\* C18: with more than 256 distinct colors seen, finalize is fatal and Download
\* returns no Dataset; a Dataset that is returned has at most 256 palette
\* entries and every stored ColorIndex is an index into its Palette.
C18_PaletteFitsOneByte ==
    /\ (ipc # "ingest" /\ Cardinality(DOMAIN iprep.colors) > 256)
          => (ipc = "fatal" /\ iout = << >>)
    /\ iout # << >> =>
          /\ Len(iout.Palette) <= 256
          /\ \A k \in DOMAIN iout.Pixels :
                \A i \in DOMAIN iout.Pixels[k] :
                    /\ iout.Pixels[k][i].ColorIndex >= 0
                    /\ iout.Pixels[k][i].ColorIndex < Len(iout.Palette)

\* The 257th color got the wrapped index 0, and finalize ended the process.
C18_Witness ==
    /\ ipc = "fatal"
    /\ Cardinality(DOMAIN iprep.colors) = 257
    /\ iout = << >>
    /\ iprep.Pixels[<<1, 0, 0>>][1].ColorIndex = 0


----------------------------------------------------------------------------
(* Attribution of a parse error                                            *)

\* The number the error names for shard i's line, as a position in what the
\* shard served: counting lines from 1, or counting them from 0.
NamesLine(i, n, text) ==
    \/ n \in DOMAIN file[i] /\ file[i][n] = text
    \/ (n + 1) \in DOMAIN file[i] /\ file[i][n + 1] = text

\* C19: when Download returns a parse error, the error names the shard the
\* line came from, the line's number within that shard, and the line's text.
C19_ParseErrorNamesShardLine ==
    (cpc = "returned" /\ result.err.kind = "parse") =>
        /\ result.err.source \in Shards
        /\ NamesLine(result.err.source, result.err.line, result.err.text)


----------------------------------------------------------------------------
(* Shard tasks after Download has returned                                 *)

\* A shard that serves more lines than the chunks channel holds while nobody
\* receives: ChunksCap sends of BatchLimit + 1 lines, and one line more.
LongLines == [k \in 1 .. (ChunksCap * (BatchLimit + 1) + 1) |-> BlankLine]

\* What the other shards serve.
ShortInputs ==
    { [lines |-> <<SrcHeader, GoodA>>, fate |-> "ok"],
      [lines |-> <<SrcHeader, BadLine>>, fate |-> "ok"],
      [lines |-> <<>>, fate |-> "http"] }

\* Shard 0 serves the long body.
AbortInputs ==
    { [i \in Shards |-> IF i = 0 THEN [lines |-> LongLines, fate |-> "ok"] ELSE in[i]] :
        in \in [Shards -> ShortInputs] }

InitAbort == DlInitFrom(AbortInputs) /\ FutIdle /\ TileIdle /\ RestIdle

\* Every goroutine that can take a step takes one eventually, and the
\* coordinator's select takes a case that stays ready; the caller need not
\* cancel.
DlFairness ==
    /\ \A i \in Shards :
          /\ WF_vars(ShardStart(i))
          /\ WF_vars(ShardScan(i))
          /\ WF_vars(ShardFlush(i))
          /\ WF_vars(ShardReport(i))
    /\ WF_vars(CloseDone)
    /\ WF_vars(CoordDone \/ CoordCtx \/ CoordError \/ CoordChunk)

SpecAbortFair == InitAbort /\ [][DlNext]_vars /\ DlFairness

\* C20: after Download has returned an error, ctx is cancelled and every shard
\* task eventually terminates, its final send to chunks included.
C20_ShardsTerminateAfterAbort ==
    (cpc = "returned" /\ result.ds = "nil")
        ~> (cancelled /\ \A i \in Shards : spc[i] = "done")


----------------------------------------------------------------------------
(* When finalize runs                                                      *)

\* Every shard task has ended, each with a nil error.
AllShardsSucceeded == \A i \in Shards : spc[i] = "done" /\ serr[i] = NoErr

\* C21: finalize runs at most once in an ingestion, only when Download returns
\* the Dataset after every shard task has completed successfully, and not at
\* all when Download returns an error.
C21_FinalizeOnlyAfterSuccess ==
    /\ finalizeRuns <= 1
    /\ finalizeRuns > 0 => (ReturnedDataset /\ AllShardsSucceeded)
    /\ (cpc = "returned" /\ result.ds = "nil") => finalizeRuns = 0


----------------------------------------------------------------------------
(* main: Download's return, the deferred finalize, Provide and the waiters *)

\* The most records added before Download returns.
MaxAdds == 3

\* Records the coordinator may add: two users at one pixel out of time order,
\* a second pixel in the last chunk, equal times.
MainRecords ==
    { [Timestamp |-> 2, UserHash |-> "alice", X |-> 0, Y |-> 0, Color |-> 5],
      [Timestamp |-> 1, UserHash |-> "bob", X |-> 0, Y |-> 0, Color |-> 3],
      [Timestamp |-> 1, UserHash |-> "alice", X |-> 0, Y |-> 0, Color |-> 3],
      [Timestamp |-> 3, UserHash |-> "bob", X |-> 1000, Y |-> 999, Color |-> 5] }

MainInit ==
    /\ mpc = "ingest"
    /\ madded = << >>
    /\ mout = NewPartial(CanvasSize2017)
    /\ mraw = << >>
    /\ mready = FALSE
    /\ mseen = [w \in Waiters |-> << >>]
    /\ mtile = << >>
    /\ msave = << >>
    /\ mdetail = << >>

MainRest == <<dlVars, futVars, tileVars, renderVars, handlerVars, cacheVars, ingestVars, parseVars,
             reqVars, cellVars, gridVars>>

\* prep.add(rec) in the coordinator's loop
MainAdd ==
    /\ mpc = "ingest"
    /\ Len(madded) < MaxAdds
    /\ \E rec \in MainRecords :
          /\ mout' = add(mout, rec)
          /\ madded' = Append(madded, rec)
    /\ UNCHANGED <<mpc, mraw, mready, mseen>>
    /\ UNCHANGED <<mreads, MainRest>>

\* Mutant of MainReturnStmt: the return skips the deferred calls.
MainReturnNoDefer ==
    /\ mpc = "ingest"
    /\ mpc' = "returned"
    /\ mraw' = mout
    /\ UNCHANGED <<madded, mout, mready, mseen>>
    /\ UNCHANGED <<mreads, MainRest>>

\* `return &out, nil`: the results are set, the deferred calls are still to run.
MainReturnStmt ==
    /\ mpc = "ingest"
    /\ mpc' = "deferred"
    /\ mraw' = mout
    /\ UNCHANGED <<madded, mout, mready, mseen>>
    /\ UNCHANGED <<mreads, MainRest>>

\* The deferred prep.finalize(), which writes through prep.Dataset = &out; then
\* Download returns to loadDataset unless glog.Fatalf ended the process.
MainDeferredFinalize ==
    /\ mpc = "deferred"
    /\ \E sorted \in SortedPixels(mout.Pixels) :
          LET d == finalize(mout, sorted)
          IN  /\ mout' = d
              /\ mpc' = IF d.fatal THEN "fatal" ELSE "returned"
    /\ UNCHANGED <<madded, mraw, mready, mseen>>
    /\ UNCHANGED <<mreads, MainRest>>

\* loadDataset returns ds and main's goroutine calls futureDataset.Provide.
MainProvideDataset ==
    /\ mpc = "returned"
    /\ mready' = TRUE
    /\ mpc' = "provided"
    /\ UNCHANGED <<madded, mout, mraw, mseen>>
    /\ UNCHANGED <<mreads, MainRest>>

\* futureDataset.Wait returns the pointer to waiter w, which reads the Dataset.
MainWait(w) ==
    /\ mready
    /\ mseen[w] = << >>
    /\ mseen' = [mseen EXCEPT ![w] = mout]
    /\ UNCHANGED <<mpc, madded, mout, mraw, mready>>
    /\ UNCHANGED <<mreads, MainRest>>

\* Mutant of MainTileTransform: the transform drops from each cell the events
\* after the cutoff.
MainTileTransformInPlace ==
    /\ mready
    /\ mtile = << >>
    /\ mtile' = TileTransformOf(mout, LastNonwhitePixel(mout))
    /\ mout' = [mout EXCEPT !.Pixels =
                   [k \in DOMAIN mout.Pixels |->
                      SelectSeq(mout.Pixels[k],
                                LAMBDA ev : ev.DeltaMillis <= LastNonwhitePixel(mout))]]
    /\ UNCHANGED <<mpc, madded, mraw, mready, mseen, msave, mdetail>>
    /\ UNCHANGED MainRest

\* The transform of tiles.Handler, run by After's goroutine on the Dataset.
MainTileTransform ==
    /\ mready
    /\ mtile = << >>
    /\ mtile' = TileTransformOf(mout, LastNonwhitePixel(mout))
    /\ UNCHANGED <<mpc, madded, mout, mraw, mready, mseen, msave, mdetail>>
    /\ UNCHANGED MainRest

\* The goroutine loadDataset starts: ds.SaveTo(datasetFile) encodes the Dataset.
MainSaveTo ==
    /\ mpc \in {"returned", "provided"}
    /\ msave = << >>
    /\ msave' = BlobOf(mout)
    /\ UNCHANGED <<mpc, madded, mout, mraw, mready, mseen, mtile, mdetail>>
    /\ UNCHANGED MainRest

\* details.PixelEvents for a pixel inside the canvas: the events of ds.At(y, x)
\* with their user and color looked up.
MainDetails ==
    /\ mready
    /\ mdetail = << >>
    /\ \E x \in {0, 1000}, y \in {0, 999} :
          /\ ~(x < 0 \/ y < 0 \/ x >= mout.Size \/ y >= mout.Size)
          /\ mdetail' = [x |-> x, y |-> y,
                         events |-> [i \in DOMAIN At(mout, y, x) |->
                            [Timestamp |-> mout.Epoch[1] + At(mout, y, x)[i].DeltaMillis,
                             UserID |-> mout.UserIDs[At(mout, y, x)[i].UserIndex + 1],
                             Color |-> mout.Palette[At(mout, y, x)[i].ColorIndex + 1]]]]
    /\ UNCHANGED <<mpc, madded, mout, mraw, mready, mseen, mtile, msave>>
    /\ UNCHANGED MainRest

MainNext ==
    \/ MainAdd
    \/ MainReturnStmt
    \/ MainDeferredFinalize
    \/ MainProvideDataset
    \/ \E w \in Waiters : MainWait(w)
    \/ MainTileTransform
    \/ MainSaveTo
    \/ MainDetails

InitMain ==
    /\ MainInit /\ DlIdle /\ FutIdle /\ TileIdle /\ RenderIdle /\ HandlerIdle /\ CacheIdle
    /\ IngestIdle /\ ParseIdle /\ ReqIdle /\ CellIdle /\ GridIdle

SpecMain == InitMain /\ [][MainNext]_vars

\* finalize has done its work on d: the lookup tables are built from the
\* dictionaries, every cell is sorted and Start is set.
Finalized(d) ==
    /\ d.Palette = InvertMap(d.colors)
    /\ d.UserIDs = InvertMap(d.users)
    /\ \A k \in DOMAIN d.Pixels : IsSortedByDelta(d.Pixels[k])
    /\ d.Start # << >>

\* C22: the Dataset future is resolved only after finalize has completed, and
\* the Dataset a waiter obtains is a finalized one.
C22_FinalizeBeforeResolution ==
    /\ mready => Finalized(mout)
    /\ \A w \in DOMAIN mseen : mseen[w] # << >> => Finalized(mseen[w])

\* A waiter obtained a Dataset whose cell was out of order when Download's
\* return statement ran.
C22_Witness ==
    /\ \E w \in DOMAIN mseen : mseen[w] # << >>
    /\ \E k \in DOMAIN mraw.Pixels : ~IsSortedByDelta(mraw.Pixels[k])


\* The number of times e occurs in s.
Occurrences(e, s) == Cardinality({ i \in DOMAIN s : s[i] = e })

\* t holds the events of s, each as many times, in some order.
SameEvents(s, t) ==
    /\ Len(s) = Len(t)
    /\ \A i \in DOMAIN s : Occurrences(s[i], s) = Occurrences(s[i], t)

\* Download has come back from its deferred finalize.
MainFinalized == mpc \in {"returned", "provided"}

StoredDeltas(d) ==
    UNION { { d.Pixels[k][i].DeltaMillis : i \in DOMAIN d.Pixels[k] } : k \in DOMAIN d.Pixels }

MaxOf(S) == CHOOSE m \in S : \A n \in S : m >= n

\* C24: in a finalized Dataset with at least one event, Start is Epoch plus the
\* smallest DeltaMillis stored in any cell, End is the latest timestamp added,
\* and Start is not after End.
C24_StartIsEarliestEndIsLatest ==
    (MainFinalized /\ madded # << >>) =>
        /\ mout.Start = << mout.Epoch[1] + MinOf(StoredDeltas(mout)) >>
        /\ mout.End = << MaxOf({ madded[i].Timestamp : i \in DOMAIN madded }) >>
        /\ mout.Start[1] <= mout.End[1]

\* The latest event was added first and the earliest second, in two cells.
C24_Witness ==
    /\ MainFinalized
    /\ Len(madded) = 3
    /\ madded[1].Timestamp = 3 /\ madded[2].Timestamp = 1 /\ madded[3].Timestamp = 2
    /\ mout.Start = << 1 >>
    /\ mout.End = << 3 >>


----------------------------------------------------------------------------
(* parseLine2022 and adminRect (source_2022.go)                            *)
(*                                                                         *)
(* A coordinate field is the sequence of its characters, so that           *)
(* strings.Trim and strconv.Atoi are computed; the timestamp and the color *)
(* are parsed by table.                                                    *)

\* The largest coordinate written into a line, beside 10.
MaxRect == 2

DigitChars == <<"0", "1", "2", "3", "4", "5", "6", "7", "8", "9">>
DigitValue(c) == (CHOOSE i \in DOMAIN DigitChars : DigitChars[i] = c) - 1
IsDigit(c) == \E i \in DOMAIN DigitChars : DigitChars[i] = c

Quote == "\""

\* strings.Trim(s, `"`)
RECURSIVE TrimLeft(_)
TrimLeft(cs) == IF cs # << >> /\ Head(cs) = Quote THEN TrimLeft(Tail(cs)) ELSE cs
RECURSIVE TrimRight(_)
TrimRight(cs) ==
    IF cs # << >> /\ cs[Len(cs)] = Quote THEN TrimRight(SubSeq(cs, 1, Len(cs) - 1)) ELSE cs
Trim(cs) == TrimRight(TrimLeft(cs))

RECURSIVE DigitsValue(_, _)
DigitsValue(cs, acc) ==
    IF cs = << >> THEN acc ELSE DigitsValue(Tail(cs), acc * 10 + DigitValue(Head(cs)))

\* strconv.Atoi: an optional sign and one or more decimal digits.
Atoi(cs) ==
    LET signed == cs # << >> /\ Head(cs) \in {"+", "-"}
        body == IF signed THEN Tail(cs) ELSE cs
    IN  IF body = << >> \/ \E i \in DOMAIN body : ~IsDigit(body[i])
        THEN [ok |-> FALSE, v |-> 0]
        ELSE [ok |-> TRUE,
              v |-> IF signed /\ Head(cs) = "-" THEN 0 - DigitsValue(body, 0)
                    ELSE DigitsValue(body, 0)]

\* The decimal text of v, as the source files write coordinates.
RECURSIVE Itoa(_)
Itoa(v) ==
    IF v < 0 THEN <<"-">> \o Itoa(0 - v)
    ELSE IF v < 10 THEN << DigitChars[v + 1] >>
    ELSE Itoa(v \div 10) \o << DigitChars[(v % 10) + 1] >>

\* parseColor on the color texts the model uses: #rrggbb to color.RGBA.
ColorTable2022 == ("#FF4500" :> <<255, 69, 0, 255>>) @@ ("#000000" :> <<0, 0, 0, 255>>)

\* Mutant of adminRect: the corners are not normalized.
adminRectAsGiven(fields, x0, y0, ts, userHash, col) ==
    LET x1r == Atoi(Trim(fields[6]))
        y1r == Atoi(Trim(fields[7]))
    IN  IF ~x1r.ok THEN ParseFail("x2")
        ELSE IF ~y1r.ok THEN ParseFail("y2")
        ELSE LET w == IF x1r.v >= x0 THEN x1r.v - x0 + 1 ELSE 0
                 h == IF y1r.v >= y0 THEN y1r.v - y0 + 1 ELSE 0
             IN  [ok |-> TRUE, why |-> "nil",
                  recs |-> [n \in 1 .. (w * h) |->
                              [Timestamp |-> ts, UserHash |-> userHash,
                               X |-> x0 + ((n - 1) \div h),
                               Y |-> y0 + ((n - 1) % h),
                               Color |-> col]]]

\* adminRect: x outer, y inner, both bounds inclusive.
adminRect(fields, x0, y0, ts, userHash, col) ==
    LET x1r == Atoi(Trim(fields[6]))
        y1r == Atoi(Trim(fields[7]))
    IN  IF ~x1r.ok THEN ParseFail("x2")
        ELSE IF ~y1r.ok THEN ParseFail("y2")
        ELSE LET xa == IF x0 > x1r.v THEN x1r.v ELSE x0
                 xb == IF x0 > x1r.v THEN x0 ELSE x1r.v
                 ya == IF y0 > y1r.v THEN y1r.v ELSE y0
                 yb == IF y0 > y1r.v THEN y0 ELSE y1r.v
                 w == xb - xa + 1
                 h == yb - ya + 1
             IN  [ok |-> TRUE, why |-> "nil",
                  recs |-> [n \in 1 .. (w * h) |->
                              [Timestamp |-> ts, UserHash |-> userHash,
                               X |-> xa + ((n - 1) \div h),
                               Y |-> ya + ((n - 1) % h),
                               Color |-> col]]]

parseLine2022(fields) ==
    IF Len(fields) # 5 /\ Len(fields) # 7 THEN ParseFail("columns")
    ELSE LET tsStr == fields[1]
             userHash == fields[2]
             colorStr == fields[3]
             xStr == Trim(fields[4])
             yStr == Trim(fields[5])
         IN  IF Len(xStr) = 0 \/ Len(yStr) = 0 \/ colorStr = "" THEN NoRecords
             ELSE IF tsStr \notin DOMAIN TimeTable THEN ParseFail("timestamp")
             ELSE IF ~Atoi(xStr).ok THEN ParseFail("x")
             ELSE IF ~Atoi(yStr).ok THEN ParseFail("y")
             ELSE IF colorStr \notin DOMAIN ColorTable2022 THEN ParseFail("color")
             ELSE IF Len(fields) = 7
                  THEN adminRect(fields, Atoi(xStr).v, Atoi(yStr).v, TimeTable[tsStr],
                                 userHash, ColorTable2022[colorStr])
             ELSE [ok |-> TRUE, why |-> "nil",
                   recs |-> << [Timestamp |-> TimeTable[tsStr], UserHash |-> userHash,
                                X |-> Atoi(xStr).v, Y |-> Atoi(yStr).v,
                                Color |-> ColorTable2022[colorStr]] >>]

\* The coordinates written into lines, and texts that are no numbers.
CoordValues == (-1 .. MaxRect) \cup {10}
CoordTexts == { Itoa(v) : v \in CoordValues } \cup { << >>, <<"x">> }

\* strings.Split of `ts,user,color,"x0,y0"` or `ts,user,color,"x0,y0,x1,y1"`.
LineOf(in) ==
    IF in.columns = 5
    THEN << in.ts, in.user, in.color, <<Quote>> \o in.c[1], in.c[2] \o <<Quote>> >>
    ELSE << in.ts, in.user, in.color, <<Quote>> \o in.c[1], in.c[2], in.c[3],
            in.c[4] \o <<Quote>> >>

ParseInit ==
    /\ \E columns \in {5, 7}, ts \in {"T1", "soon"}, color \in {"#FF4500", "red", ""},
          c \in [1 .. 4 -> CoordTexts] :
          /\ columns = 5 => (c[3] = << >> /\ c[4] = << >>)
          /\ pin = [columns |-> columns, ts |-> ts, user |-> "alice", color |-> color, c |-> c]
    /\ pline = LineOf(pin)
    /\ ppc = "parse"
    /\ pres = << >>

\* records, err := src.ParseLine(line)
Parse2022 ==
    /\ ppc = "parse"
    /\ pres' = parseLine2022(pline)
    /\ ppc' = "done"
    /\ UNCHANGED <<pin, pline>>
    /\ UNCHANGED <<dlVars, futVars, tileVars, renderVars, handlerVars, cacheVars, ingestVars,
                   mainVars, reqVars, cellVars, gridVars>>

ParseNext == Parse2022

InitParse ==
    /\ ParseInit /\ DlIdle /\ FutIdle /\ TileIdle /\ RenderIdle /\ HandlerIdle /\ CacheIdle
    /\ IngestIdle /\ MainIdle /\ ReqIdle /\ CellIdle /\ GridIdle

SpecParse == InitParse /\ [][ParseNext]_vars

Abs(v) == IF v < 0 THEN 0 - v ELSE v

\* The line was written as a rectangle: seven fields, a timestamp and a color
\* that parse, and four numbers.
IsRectLine ==
    /\ pin.columns = 7
    /\ pin.ts \in DOMAIN TimeTable
    /\ pin.color \in DOMAIN ColorTable2022
    /\ \A j \in 1 .. 4 : \E v \in CoordValues : pin.c[j] = Itoa(v)

\* The number whose text is the j-th coordinate of the line.
Corner(j) == CHOOSE v \in CoordValues : pin.c[j] = Itoa(v)

Between(v, a, b) == (a <= v /\ v <= b) \/ (b <= v /\ v <= a)

\* C25: a 7-field line with corners (x0,y0) and (x1,y1) in any order yields one
\* event per coordinate of the inclusive rectangle, (|x1-x0|+1)*(|y1-y0|+1)
\* events of pairwise distinct coordinates, each with the line's timestamp,
\* user and color.
C25_RectangleFill ==
    (ppc = "done" /\ IsRectLine) =>
        /\ pres.ok
        /\ Len(pres.recs) = (Abs(Corner(3) - Corner(1)) + 1) * (Abs(Corner(4) - Corner(2)) + 1)
        /\ \A i, j \in DOMAIN pres.recs :
              i # j => <<pres.recs[i].X, pres.recs[i].Y>> # <<pres.recs[j].X, pres.recs[j].Y>>
        /\ \A i \in DOMAIN pres.recs :
              /\ Between(pres.recs[i].X, Corner(1), Corner(3))
              /\ Between(pres.recs[i].Y, Corner(2), Corner(4))
              /\ pres.recs[i].Timestamp = TimeTable[pin.ts]
              /\ pres.recs[i].UserHash = pin.user
              /\ pres.recs[i].Color = ColorTable2022[pin.color]

\* A rectangle given from its lower right to its upper left corner, 10 wide
\* and 3 high.
C25_Witness ==
    /\ ppc = "done"
    /\ IsRectLine
    /\ Corner(1) = 10 /\ Corner(2) = 2 /\ Corner(3) = 1 /\ Corner(4) = 0
    /\ Len(pres.recs) = 30


----------------------------------------------------------------------------
(* tiles.Handler: what a request is answered                               *)

\* The width of Go's int in bits.
IntBits == 64

\* 1 << z for an int z that is not negative: the sign bit alone for z =
\* IntBits - 1, the least int, and zero once every bit is shifted out.
ShiftOne(z) ==
    IF z >= IntBits THEN 0
    ELSE IF z = IntBits - 1 THEN -(2 ^ (IntBits - 1))
    ELSE 2 ^ z

\* A run of digits too long for an int.
HugeDigits == [i \in 1 .. 20 |-> "9"]

\* fmt.Sscan(str, ptr) for a str of digits (tilePath admits nothing else): it
\* fails when the number does not fit an int.
Sscan(cs) ==
    IF Len(cs) > 18 THEN [ok |-> FALSE, v |-> 0] ELSE [ok |-> TRUE, v |-> DigitsValue(cs, 0)]

\* A path tilePath matches, with its five submatches, or one it does not match.
TilePath(x, y, z, w, h) == [match |-> TRUE, m |-> <<Itoa(x), Itoa(y), Itoa(z), Itoa(w), Itoa(h)>>]
OtherPath == [match |-> FALSE, m |-> << >>]

\* The paths requested.
TileRequests ==
    { OtherPath,
      TilePath(0, 0, 2, 2, 1),
      TilePath(9, 9, 0, 1, 1),
      TilePath(0, 0, 2, 0, 1),
      TilePath(0, 0, 64, 1, 1),
      [match |-> TRUE, m |-> <<HugeDigits, Itoa(0), Itoa(2), Itoa(1), Itoa(1)>>] }

\* What the transform may have produced: the tile data of an empty Dataset
\* and of one with an event.
TileDatas ==
    { TileTransformOf(DownloadOf(<< >>), 0),
      TileTransformOf(DownloadOf(<< CacheRecA >>), LastNonwhitePixel(DownloadOf(<< CacheRecA >>))) }

ReqInit ==
    /\ kfut = "pending"
    /\ kdata = << >>
    /\ kreq \in [Requests -> TileRequests]
    /\ kctx = [q \in Requests |-> FALSE]
    /\ kpc = [q \in Requests |-> "match"]
    /\ kwait = [q \in Requests |-> "none"]
    /\ kresp = [q \in Requests |-> << >>]

ReqRest == <<dlVars, futVars, tileVars, renderVars, handlerVars, cacheVars, ingestVars,
             mainVars, parseVars, cellVars, gridVars>>

Response(status, body) == [status |-> status, body |-> body]

\* After's goroutine provides futurePixels: the transform's tileData, or the
\* error of the Dataset future.
PixelsProvided ==
    /\ kfut = "pending"
    /\ \/ \E d \in TileDatas : kfut' = "ready" /\ kdata' = d
       \/ kfut' = "failed" /\ UNCHANGED kdata
    /\ UNCHANGED <<kreq, kctx, kpc, kwait, kresp>>
    /\ UNCHANGED ReqRest

\* The client goes away or the server shuts down: r.Context() is done.
TileCtxDone(q) ==
    /\ kpc[q] # "done"
    /\ ~kctx[q]
    /\ kctx' = [kctx EXCEPT ![q] = TRUE]
    /\ UNCHANGED <<kfut, kdata, kreq, kpc, kwait, kresp>>
    /\ UNCHANGED ReqRest

\* m := tilePath.FindStringSubmatch(r.URL.Path)
TileMatch(q) ==
    /\ kpc[q] = "match"
    /\ IF kreq[q].match
       THEN kpc' = [kpc EXCEPT ![q] = "wait"] /\ UNCHANGED kresp
       ELSE /\ kpc' = [kpc EXCEPT ![q] = "done"]
            /\ kresp' = [kresp EXCEPT ![q] = Response("404", "not found")]
    /\ UNCHANGED <<kfut, kdata, kreq, kctx, kwait>>
    /\ UNCHANGED ReqRest

\* data, err := futurePixels.Wait(r.Context()): the select takes a ready case.
TileWait(q) ==
    /\ kpc[q] = "wait"
    /\ \/ /\ kctx[q]
          /\ kwait' = [kwait EXCEPT ![q] = "failed"]
       \/ /\ kfut # "pending"
          /\ kwait' = [kwait EXCEPT ![q] = IF kfut = "ready" THEN "ok" ELSE "failed"]
    /\ IF kwait'[q] = "ok"
       THEN kpc' = [kpc EXCEPT ![q] = "scan"] /\ UNCHANGED kresp
       ELSE /\ kpc' = [kpc EXCEPT ![q] = "done"]
            /\ kresp' = [kresp EXCEPT ![q] = Response("503", "not ready")]
    /\ UNCHANGED <<kfut, kdata, kreq, kctx>>
    /\ UNCHANGED ReqRest

\* Some submatch does not scan into an int.
ScanFails(req) == \E j \in 1 .. 5 : ~Sscan(req.m[j]).ok

\* The loop of fmt.Sscan over the five submatches.
TileScan(q) ==
    /\ kpc[q] = "scan"
    /\ IF ScanFails(kreq[q])
       THEN /\ kpc' = [kpc EXCEPT ![q] = "done"]
            /\ kresp' = [kresp EXCEPT ![q] = Response("400", "scan")]
       ELSE kpc' = [kpc EXCEPT ![q] = "encode"] /\ UNCHANGED kresp
    /\ UNCHANGED <<kfut, kdata, kreq, kctx, kwait>>
    /\ UNCHANGED ReqRest

\* win := &window{...}
WindowFor(td, req) ==
    [Size |-> td.size, CanvasSize |-> td.canvasSize, Data |-> td, Palette |-> td.palette,
     TileX |-> Sscan(req.m[1]).v, TileY |-> Sscan(req.m[2]).v,
     TileWidth |-> Sscan(req.m[4]).v, TileHeight |-> Sscan(req.m[5]).v,
     PixelScale |-> ShiftOne(Sscan(req.m[3]).v), GlobalScale |-> td.globalScale]

\* The points of win.Bounds().
BoundsOf(win) ==
    { <<x, y>> : x \in (win.TileX * win.TileWidth) .. (win.TileX * win.TileWidth + win.TileWidth - 1),
                 y \in (win.TileY * win.TileHeight) .. (win.TileY * win.TileHeight + win.TileHeight - 1) }

\* png.Encode(buf, img): an image without pixels is an error; otherwise the
\* encoder calls img.At for every point of the bounds.  At divides by
\* PixelScale and indexes the Palette, and either may panic.
pngEncode(win) ==
    IF win.TileWidth <= 0 \/ win.TileHeight <= 0 THEN Response("500", "invalid image size")
    ELSE IF win.PixelScale = 0 THEN Response("panic", "integer divide by zero")
    ELSE IF \E p \in BoundsOf(win) : windowAt(win, p[1], p[2]).kind = "panic"
         THEN Response("panic", "index out of range")
    ELSE Response("200", [p \in BoundsOf(win) |-> windowAt(win, p[1], p[2])])

\* writePNG(rw, win).  A panic unwinds the handler; net/http recovers it and
\* closes the connection without an answer.
TileEncode(q) ==
    /\ kpc[q] = "encode"
    /\ kresp' = [kresp EXCEPT ![q] = pngEncode(WindowFor(kdata, kreq[q]))]
    /\ kpc' = [kpc EXCEPT ![q] = "done"]
    /\ UNCHANGED <<kfut, kdata, kreq, kctx, kwait>>
    /\ UNCHANGED ReqRest

ReqNext ==
    \/ PixelsProvided
    \/ \E q \in Requests : TileCtxDone(q)
    \/ \E q \in Requests : TileMatch(q)
    \/ \E q \in Requests : TileWait(q)
    \/ \E q \in Requests : TileScan(q)
    \/ \E q \in Requests : TileEncode(q)

InitReq ==
    /\ ReqInit /\ DlIdle /\ FutIdle /\ TileIdle /\ RenderIdle /\ HandlerIdle /\ CacheIdle
    /\ IngestIdle /\ MainIdle /\ ParseIdle /\ CellIdle /\ GridIdle

SpecReq == InitReq /\ [][ReqNext]_vars

\* The answer the claim gives a finished request.
ExpectedStatus(q) ==
    IF ~kreq[q].match THEN "404"
    ELSE IF kwait[q] = "failed" THEN "503"
    ELSE IF ScanFails(kreq[q]) THEN "400"
    ELSE IF pngEncode(WindowFor(kdata, kreq[q])).status = "500" THEN "500"
    ELSE "200"

\* C26: a finished tile request was answered not-found when its path does not
\* match (without waiting), service-unavailable when the wait failed,
\* bad-request when a parameter does not scan, internal-error when encoding
\* failed, and otherwise with the encoded image.
C26_TileRequestOutcomes ==
    \A q \in DOMAIN kpc :
        kpc[q] = "done" =>
            /\ kresp[q].status = ExpectedStatus(q)
            /\ ~kreq[q].match => kwait[q] = "none"

\* No step of a request changes the tile data the future holds.
TileDataUntouched == [][kfut = "ready" => kdata' = kdata]_vars

\* The same without the requests whose encoding panics.
OutcomesUnlessPanic ==
    \A q \in DOMAIN kpc :
        (kpc[q] = "done" /\ kresp[q].status # "panic") => kresp[q].status = ExpectedStatus(q)


\* C27: once Download has returned the Dataset no step writes to it: the
\* waiters, the tile transform, the details handler and SaveTo leave it as
\* finalize left it.
C27_DatasetImmutableAfterReturn == [][MainFinalized => mout' = mout]_vars

\* Every reader has read a Dataset that holds events.
C27_Witness ==
    /\ mtile # << >>
    /\ msave # << >>
    /\ mdetail # << >> /\ Len(mdetail.events) = 2
    /\ \A w \in DOMAIN mseen : mseen[w] # << >>


----------------------------------------------------------------------------
(* partialDataset.add and Dataset.At over coordinates in and out of canvas *)

\* The most records added.
MaxCells == 2

\* Coordinates of the records: the corners of chunks and of the 2017 canvas,
\* and values beside the canvas.
CellXs == { -1, 0, 255, 256, 1000, 1001, 1024 }
CellYs == { -1, 0, 256, 1000, 1024 }

\* The i-th record has the timestamp i.
CellInit ==
    /\ \E xs \in [1 .. MaxCells -> CellXs], ys \in [1 .. MaxCells -> CellYs] :
          arecs = [i \in 1 .. MaxCells |->
                     [Timestamp |-> i, UserHash |-> "alice", X |-> xs[i], Y |-> ys[i],
                      Color |-> 5]]
    /\ aprep = NewPartial(CanvasSize2017)
    /\ adone = << >>

\* prep.add(rec), which returns nothing; an index out of range ends the process.
CellAdd ==
    /\ Len(adone) < Len(arecs)
    /\ ~aprep.panicked
    /\ LET d == add(aprep, arecs[Len(adone) + 1])
       IN  /\ aprep' = d
           /\ adone' = Append(adone, [rejected |-> FALSE, panicked |-> d.panicked,
                                      stored |-> StoredEvents(d) - StoredEvents(aprep)])
    /\ UNCHANGED arecs
    /\ UNCHANGED <<dlVars, futVars, tileVars, renderVars, handlerVars, cacheVars, ingestVars,
                   mainVars, parseVars, reqVars, gridVars>>

CellNext == CellAdd

InitCell ==
    /\ CellInit /\ DlIdle /\ FutIdle /\ TileIdle /\ RenderIdle /\ HandlerIdle /\ CacheIdle
    /\ IngestIdle /\ MainIdle /\ ParseIdle /\ ReqIdle /\ GridIdle

SpecCell == InitCell /\ [][CellNext]_vars

\* rec lies outside [0, Size) x [0, Size).
OutOfCanvas(rec) ==
    rec.X < 0 \/ rec.Y < 0 \/ rec.X >= aprep.Size \/ rec.Y >= aprep.Size

\* C28: a record whose x or y is outside the canvas is rejected by ingestion
\* with an error and is stored in no cell.
C28_OutOfCanvasRejected ==
    \A i \in DOMAIN adone :
        OutOfCanvas(arecs[i]) => (adone[i].rejected /\ adone[i].stored = 0)


----------------------------------------------------------------------------
(* The trailer of renderFrames                                             *)

\* The frames made by the loop over the buckets, each for a later edge than
\* the one before.
BucketFrames == Cardinality({ rframes[k].edge : k \in DOMAIN rframes })

\* C29: for a non-empty history renderFrames returns the frames of the buckets
\* followed by exactly TrailerFrames frames, each identical to the last frame
\* of a bucket.
C29_TrailerRepeatsLastFrame ==
    rpc = "done" =>
        /\ BucketFrames >= 1
        /\ \A k \in 1 .. (BucketFrames - 1) : rframes[k].edge < rframes[k + 1].edge
        /\ Len(rframes) = BucketFrames + TrailerFrames
        /\ \A k \in (BucketFrames + 1) .. Len(rframes) : rframes[k] = rframes[BucketFrames]

\* Two buckets whose frames differ, and the trailer after them.
C29_Witness ==
    /\ rpc = "done"
    /\ BucketFrames = 2
    /\ rframes[1].Pix # rframes[2].Pix
    /\ Len(rframes) = 2 + TrailerFrames


\* The event add stores for the i-th record (one user, one color).
CellEvent(i) == [DeltaMillis |-> i, UserIndex |-> 0, ColorIndex |-> 0]

\* Chunk index, cell row and cell column of pixel (x, y).
CellKey(x, y) ==
    << (y \div ChunkDim) * aprep.ChunkStride + (x \div ChunkDim), y % ChunkDim, x % ChunkDim >>

\* The records added so far that lie at (x, y), in the order of their adds.
AddedAt(x, y) ==
    SelectSeq([j \in 1 .. Len(adone) |-> j],
              LAMBDA j : arecs[j].X = x /\ arecs[j].Y = y)

RECURSIVE FirstSeen(_)
FirstSeen(s) ==
    IF s = << >> THEN << >>
    ELSE LET front == FirstSeen(SubSeq(s, 1, Len(s) - 1))
             last == s[Len(s)]
         IN  IF \E i \in DOMAIN front : front[i] = last THEN front ELSE Append(front, last)

\* The key of the cell add stores rec in.
KeyOf(d, rec) ==
    << GoDiv(rec.Y, ChunkDim) * d.ChunkStride + GoDiv(rec.X, ChunkDim), U8(rec.Y), U8(rec.X) >>

\* The records added to cell k, as <<time, user, color>>, in the order added.
AddedTo(k) ==
    LET recs == SelectSeq(madded, LAMBDA rec : KeyOf(mout, rec) = k)
    IN  [i \in DOMAIN recs |-> << recs[i].Timestamp, recs[i].UserHash, recs[i].Color >>]

\* The events of cell k with their indices looked up in the lookup tables.
LookedUp(k) ==
    [i \in DOMAIN mout.Pixels[k] |->
        << mout.Epoch[1] + mout.Pixels[k][i].DeltaMillis,
           mout.UserIDs[mout.Pixels[k][i].UserIndex + 1],
           mout.Palette[mout.Pixels[k][i].ColorIndex + 1] >>]

\* C31: the color and user dictionaries give each color and user its rank
\* (0, 1, 2, ...) in the order of first appearance among the records added so
\* far, so an index once given stays; after finalize Palette and UserIDs list
\* the distinct colors and users once each in that order, and every stored
\* event's indices look up the color and the user of the record it came from.
C31_DictionariesFirstSeen ==
    /\ mpc # "fatal" =>
          /\ DOMAIN mout.colors = { madded[i].Color : i \in DOMAIN madded }
          /\ DOMAIN mout.users = { madded[i].UserHash : i \in DOMAIN madded }
          /\ \A c \in DOMAIN mout.colors :
                FirstSeen([i \in DOMAIN madded |-> madded[i].Color])[mout.colors[c] + 1] = c
          /\ \A u \in DOMAIN mout.users :
                FirstSeen([i \in DOMAIN madded |-> madded[i].UserHash])[mout.users[u] + 1] = u
    /\ MainFinalized =>
          /\ mout.Palette = FirstSeen([i \in DOMAIN madded |-> madded[i].Color])
          /\ mout.UserIDs = FirstSeen([i \in DOMAIN madded |-> madded[i].UserHash])
          /\ \A k \in DOMAIN mout.Pixels : SameEvents(AddedTo(k), LookedUp(k))

\* Three records of two colors and two users, the colors first seen in the
\* order 5, 3 and the users in the order bob, alice; Download has returned.
C31_Witness ==
    /\ MainFinalized
    /\ Len(madded) = 3
    /\ madded[1].Color = 5 /\ madded[1].UserHash = "bob"
    /\ madded[2].Color = 3 /\ madded[2].UserHash = "alice"
    /\ mout.Palette = << 5, 3 >>
    /\ mout.UserIDs = << "bob", "alice" >>


----------------------------------------------------------------------------
(* Batches of one long shard (Source.download's pending and the channel)   *)

\* Users of the long shard's lines, one per line.
BatchUsers ==
    << "u01", "u02", "u03", "u04", "u05", "u06", "u07", "u08", "u09", "u10",
       "u11", "u12", "u13", "u14", "u15", "u16", "u17", "u18", "u19", "u20",
       "u21", "u22", "u23", "u24", "u25", "u26", "u27", "u28", "u29", "u30" >>

\* The pixels and the times of the long shard's lines: four lines to a pixel,
\* each at another time.
BatchXs == << "0", "1", "2", "3", "5", "255", "256", "257" >>
BatchTimes == << "T1", "T0", "T3", "T2" >>

\* The header and then more lines than the chunks channel holds while nobody
\* receives, every line a placement by another user.
BatchLines ==
    << SrcHeader >> \o
    [k \in 1 .. (ChunksCap * (BatchLimit + 1) + 1) |->
        << BatchTimes[((k - 1) % 4) + 1], BatchUsers[k], BatchXs[((k - 1) \div 4) + 1], "0", "5" >>]

\* Shard 0 serves the long body and shard 1 one line at its first pixel; the
\* shards after them served their header alone and have ended, their nil
\* errors received by the coordinator.
BatchInit ==
    /\ file = [i \in Shards |-> IF i = 0 THEN BatchLines
                                ELSE IF i = 1 THEN <<SrcHeader, <<"T2", "bob", "0", "0", "3">> >>
                                ELSE <<SrcHeader>>]
    /\ fate = [i \in Shards |-> "ok"]
    /\ spc = [i \in Shards |-> IF i <= 1 THEN "start" ELSE "done"]
    /\ pos = [i \in Shards |-> IF i <= 1 THEN 0 ELSE 1]
    /\ pending = [i \in Shards |-> <<>>]
    /\ serr = [i \in Shards |-> NoErr]
    /\ chunks = <<>>
    /\ errors = <<>>
    /\ wg = Cardinality(Shards \cap {0, 1})
    /\ done = FALSE
    /\ cancelled = FALSE
    /\ cpc = "loop"
    /\ result = [ds |-> "nil", err |-> NoErr]
    /\ prep = NewPartial(CanvasSize2017)
    /\ sourceLineNumbers = [i \in Shards |-> 0]
    /\ parsed = <<>>
    /\ finalizeRuns = 0

InitBatch == BatchInit /\ FutIdle /\ TileIdle /\ RestIdle

SpecBatch == InitBatch /\ [][DlNext]_vars

\* The lines shard i has scanned that are not its header.
Scanned(i) ==
    LET ls == SubSeq(file[i], 1, pos[i])
    IN  IF ls # << >> /\ ls[1] = SrcHeader THEN Tail(ls) ELSE ls

\* The lines of shard i the coordinator has taken up, in the order taken.
Consumed(i) ==
    LET ps == SelectSeq(parsed, LAMBDA p : p[1] = i)
    IN  [j \in DOMAIN ps |-> ps[j][2]]

\* The lines of shard i in the batches of the channel cs, oldest first.
RECURSIVE InFlight(_, _)
InFlight(cs, i) ==
    IF cs = << >> THEN << >>
    ELSE (IF Head(cs).source = i THEN Head(cs).lines ELSE << >>) \o InFlight(Tail(cs), i)

\* The lines shard i holds for a later send.
Held(i) == IF spc[i] = "scan" THEN pending[i] ELSE << >>

IsPrefix(s, t) == Len(s) <= Len(t) /\ s = SubSeq(t, 1, Len(s))

\* The records of the lines the coordinator has parsed that fall into cell k,
\* as <<time, user, color>>, in the order of consumption.
ConsumedInto(k) ==
    LET ps == SelectSeq(parsed, LAMBDA p : /\ ParseLine(p[2]).ok
                                           /\ ParseLine(p[2]).recs # << >>
                                           /\ KeyOf(prep, ParseLine(p[2]).recs[1]) = k)
    IN  [j \in DOMAIN ps |-> << ParseLine(ps[j][2]).recs[1].Timestamp,
                                ParseLine(ps[j][2]).recs[1].UserHash,
                                ParseLine(ps[j][2]).recs[1].Color >>]

\* The events of cell k before finalize, with their indices looked up in the
\* dictionaries.
CellLookedUp(k) ==
    [j \in DOMAIN prep.Pixels[k] |->
        << prep.Pixels[k][j].DeltaMillis,
           InvertMap(prep.users)[prep.Pixels[k][j].UserIndex + 1],
           InvertMap(prep.colors)[prep.Pixels[k][j].ColorIndex + 1] >>]

----------------------------------------------------------------------------
(* The canvas coordinate a tile pixel samples                              *)

\* floor(v * scale / 2^z) for v >= 0.
SampledCoord(v, scale, z) == (v * scale) \div (2 ^ z)

\* C33: the Bounds of tile (t, t) of side TileSide is the half-open square
\* from t*TileSide to t*TileSide + TileSide on both axes, the pixel the
\* encoder asks for lies in it, and window.At answers with the color of the
\* one canvas pixel (floor(X*ChunkStride/2^z), floor(Y*ChunkStride/2^z)):
\* the palette entry of the pixel buffer there, transparent outside the canvas.
C33_TileSamplesScaledCoordinate ==
    sample # <<>> =>
        LET pX == SampledCoord(sample.x, tds.ChunkStride, sample.z)
            pY == SampledCoord(sample.y, tds.ChunkStride, sample.z)
        IN  /\ sample.bounds.Min = << sample.tile * TileSide, sample.tile * TileSide >>
            /\ sample.bounds.Max = << sample.tile * TileSide + TileSide,
                                      sample.tile * TileSide + TileSide >>
            /\ sample.bounds.Min[1] <= sample.x /\ sample.x < sample.bounds.Max[1]
            /\ sample.bounds.Min[2] <= sample.y /\ sample.y < sample.bounds.Max[2]
            /\ tds.Palette # << >> =>
                  sample.out =
                      IF pX >= tds.Size \/ pY >= tds.Size THEN Transparent
                      ELSE Colored(tds.Palette[PixelDataAt(tdata, pY, pX) + 1])

\* The pixel 2001 of tile 7 at zoom 3 samples the canvas at floor(2001*4/8) =
\* 1000, the last pixel, whose color is not the palette's first.
C33_Witness ==
    /\ sample # <<>>
    /\ sample.tile = 7 /\ sample.z = 3 /\ sample.x = 2001
    /\ PixelDataAt(tdata, 1000, 1000) > 0
    /\ sample.out = Colored(tds.Palette[PixelDataAt(tdata, 1000, 1000) + 1])


----------------------------------------------------------------------------
(* The cutoff of the tile transform                                        *)

\* The neutral colors the transform's comment names (tiles.go:79), as entries
\* of palette2017: white is entry 0 and black entry 3; no entry is transparent.
NeutralColors == { 0, 3 }

\* The greatest DeltaMillis of an event of d whose color is not neutral, 0
\* when there is none.
LastNonNeutral(d) ==
    MaxOver(UNION { { d.Pixels[k][i].DeltaMillis :
                        i \in { j \in DOMAIN d.Pixels[k] :
                                  d.Palette[d.Pixels[k][j].ColorIndex + 1] \notin NeutralColors } } :
                    k \in DOMAIN d.Pixels },
            0)

\* C34: the cutoff the tile transform uses is the greatest DeltaMillis, over
\* the events of all cells, of an event whose color is not a neutral color.
C34_CutoffIsLastNonNeutralEvent ==
    mtile # << >> => LastNonwhitePixel(mout) = LastNonNeutral(mout)


----------------------------------------------------------------------------
(* What a Wait returns                                                     *)

\* The arguments of the Provide call that resolved f: loadDataset's results
\* for the Dataset future (the loader goes on to Fatalf exactly when the error
\* is not nil); for the derived future the source's error with the zero
\* value, or what the transform returned.
ProvidedTo(f) ==
    IF f = "dataset"
    THEN { out \in LoadOutcomes : (out.err = "nil") <=> (lpc = "done") }
    ELSE IF xfrmCalls = 0 THEN { [value |-> Zero, err |-> ferr["dataset"]] }
    ELSE { xfrmOut }

\* Request w's Wait has returned, and not on its context.
ReturnedReady(w) == wpc[w] = "returned" /\ wres[w].err # "ctxErr"

\* C35: a Wait that returns on readiness returns the value and the error the
\* Future's Provide call was given; requests whose Waits on one Future
\* returned on readiness hold the same outcome; and a Wait returns the
\* context's error only when its context is cancelled.
C35_WaitReturnsProvided ==
    /\ [](\A w \in Waiters :
            ReturnedReady(w) => (provides[wfut[w]] = 1 /\ wres[w] \in ProvidedTo(wfut[w])))
    /\ [](\A w, v \in Waiters :
            (ReturnedReady(w) /\ ReturnedReady(v) /\ wfut[w] = wfut[v]) => wres[w] = wres[v])
    /\ [][\A w \in Waiters : CancelledReturn(w) => wctx[w]]_vars

\* Two requests waited on the Dataset future with live contexts and both hold
\* the Dataset the loader provided; the derived Future is resolved as well.
C35_Witness ==
    /\ \A w \in Waiters :
          /\ wpc[w] = "returned" /\ wfut[w] = "dataset" /\ ~wctx[w]
          /\ wres[w] = [value |-> "ds", err |-> "nil"]
    /\ fready["pixels"]


----------------------------------------------------------------------------
(* Source.makeChunks over canvas sizes                                     *)

\* The largest canvas size tried: past four chunks to a row.
MaxCanvas == 1100

\* Source.makeChunks(): the chunks, indexed from 0, with their effective
\* Width and Height, and the stride.
makeChunks(canvasSize) ==
    LET stride == GoDiv(canvasSize + 255, ChunkDim)
    IN  [stride |-> stride,
         chunks |-> [i \in 0 .. (stride * stride - 1) |->
                       [Width |-> IF i % stride = stride - 1
                                  THEN (canvasSize % ChunkDim) + 1 ELSE ChunkDim,
                        Height |-> IF GoDiv(i, stride) = stride - 1
                                   THEN (canvasSize % ChunkDim) + 1 ELSE ChunkDim]]]

GridInit ==
    /\ gsize \in 1 .. MaxCanvas
    /\ gpc = "make"
    /\ gout = << >>

\* chunkSlice, chunkStride := src.makeChunks() in Download
GridMake ==
    /\ gpc = "make"
    /\ gout' = makeChunks(gsize)
    /\ gpc' = "made"
    /\ UNCHANGED gsize
    /\ UNCHANGED <<dlVars, futVars, tileVars, renderVars, handlerVars, cacheVars, ingestVars,
                   mainVars, parseVars, reqVars, cellVars>>

GridNext == GridMake

InitGrid ==
    /\ GridInit /\ DlIdle /\ FutIdle /\ TileIdle /\ RenderIdle /\ HandlerIdle /\ CacheIdle
    /\ IngestIdle /\ MainIdle /\ ParseIdle /\ ReqIdle /\ CellIdle

SpecGrid == InitGrid /\ [][GridNext]_vars

\* The least n with n * ChunkDim >= v.
CeilDiv(v) == CHOOSE n \in 0 .. v : n * ChunkDim >= v /\ (n - 1) * ChunkDim < v

RECURSIVE SumOver(_, _)
SumOver(f, S) == IF S = {} THEN 0
                 ELSE LET k == CHOOSE k \in S : TRUE
                      IN  f[k] + SumOver(f, S \ {k})

\* The indices of the chunks of chunk row r, and of chunk column c.
ChunkRow(g, r) == { i \in DOMAIN g.chunks : i \div g.stride = r }
ChunkColumn(g, c) == { i \in DOMAIN g.chunks : i % g.stride = c }

\* C36: makeChunks returns stride = ceil(S/256) and stride*stride chunks; the
\* widths of the chunks of every chunk row sum to S, and so do the heights of
\* the chunks of every chunk column.
C36_ChunkGridCoversCanvas ==
    gpc = "made" =>
        /\ gout.stride = CeilDiv(gsize)
        /\ DOMAIN gout.chunks = 0 .. (gout.stride * gout.stride - 1)
        /\ \A r \in 0 .. (gout.stride - 1) :
              SumOver([i \in DOMAIN gout.chunks |-> gout.chunks[i].Width], ChunkRow(gout, r)) = gsize
        /\ \A c \in 0 .. (gout.stride - 1) :
              SumOver([i \in DOMAIN gout.chunks |-> gout.chunks[i].Height], ChunkColumn(gout, c)) = gsize

\* The stride and the number of chunks alone.
GridStrideAndCount ==
    gpc = "made" =>
        /\ gout.stride = CeilDiv(gsize)
        /\ DOMAIN gout.chunks = 0 .. (gout.stride * gout.stride - 1)


----------------------------------------------------------------------------
(* The frames of renderFrames as snapshots                                 *)

\* The canvas after the first n records were applied to the empty buffer.
RECURSIVE CanvasAfter(_)
CanvasAfter(n) ==
    IF n = 0 THEN << >>
    ELSE (PixIndex(rrecords[n]) :> rrecords[n].Color) @@ CanvasAfter(n - 1)

\* The number of records placed before edge.
RecordsBefore(edge) == Cardinality({ i \in DOMAIN rrecords : rrecords[i].UnixMillis < edge })

\* C37: a frame that renderFrames has appended never changes while later
\* buckets are applied and the trailer is added, and holds the canvas as it
\* was at the end of its bucket: the records before its edge applied in order.
C37_FramesAreIndependentSnapshots ==
    /\ [][\A k \in DOMAIN rframes : k \in DOMAIN rframes' /\ rframes'[k] = rframes[k]]_vars
    /\ [](\A k \in DOMAIN rframes :
             rframes[k].Pix = CanvasAfter(RecordsBefore(rframes[k].edge)))

\* Three buckets, each recoloring pixel (0, 0), and the trailer: the first
\* frame still shows the first color.
C37_Witness ==
    /\ rpc = "done"
    /\ BucketFrames = 3
    /\ PixAt(rframes[1].Pix, 0) = 1
    /\ PixAt(rframes[2].Pix, 0) = 2
    /\ PixAt(rframes[3].Pix, 0) = 1


----------------------------------------------------------------------------
(* How renderFrames ends                                                   *)

\* C38: renderFrames returns normally, with no record left pending, for every
\* time-ordered list of records, the empty list included.
C38_RenderFramesReturns ==
    /\ rpc # "panic"
    /\ rpc = "done" => rpending = << >>

\* Every iteration of the outer loop consumes at least one pending record, and
\* the records consumed so far are the ones applied to the buffer, in order.
RenderConsumes ==
    /\ [][\A n \in 0 .. MaxEvents :
            (rpc = "loop" /\ Len(rpending) = n /\ Len(rframes') = Len(rframes) + 1)
                => Len(rpending') < n]_vars
    /\ [](rpc = "loop" =>
            /\ rrecords = SubSeq(rrecords, 1, Len(rrecords) - Len(rpending)) \o rpending
            /\ rpixels = CanvasAfter(Len(rrecords) - Len(rpending)))

\* The same claim for the lists that hold a record.
ReturnsUnlessEmpty ==
    rrecords # << >> => (rpc # "panic" /\ (rpc = "done" => rpending = << >>))


----------------------------------------------------------------------------
(* The scale of an accepted tile request                                   *)

\* Request q was accepted: its path matched, the tile data was there and its
\* five parameters scanned.
Accepted(q) == kreq[q].match /\ kwait[q] = "ok" /\ ~ScanFails(kreq[q])

\* C39: a finished request that was accepted either asked for a zoom whose
\* shift overflows (z >= IntBits - 1) and was answered bad-request, or was
\* sampled with PixelScale = 2^z > 0.
C39_ZoomScalePositive ==
    \A q \in DOMAIN kpc :
        (kpc[q] = "done" /\ Accepted(q)) =>
            IF Sscan(kreq[q].m[3]).v >= IntBits - 1
            THEN kresp[q].status = "400"
            ELSE /\ WindowFor(kdata, kreq[q]).PixelScale = 2 ^ Sscan(kreq[q].m[3]).v
                 /\ WindowFor(kdata, kreq[q]).PixelScale > 0

\* The same for the zooms below IntBits - 1.
ScalePositiveBelowOverflow ==
    \A q \in DOMAIN kpc :
        (kpc[q] = "done" /\ Accepted(q) /\ Sscan(kreq[q].m[3]).v < IntBits - 1) =>
            /\ WindowFor(kdata, kreq[q]).PixelScale = 2 ^ Sscan(kreq[q].m[3]).v
            /\ WindowFor(kdata, kreq[q]).PixelScale > 0


----------------------------------------------------------------------------
(* Tile pixels of cells without an event at or before the cutoff           *)

\* The sampled coordinate is inside the canvas and its cell has no event at
\* or before the cutoff.
SampledCellUnset ==
    /\ sample # <<>>
    /\ SampledCoord(sample.x, tds.ChunkStride, sample.z) < tds.Size
    /\ SampledCoord(sample.y, tds.ChunkStride, sample.z) < tds.Size
    /\ ~HasEventAtOrBefore(At(tds, SampledCoord(sample.y, tds.ChunkStride, sample.z),
                                   SampledCoord(sample.x, tds.ChunkStride, sample.z)),
                           lastNonwhite)

\* C40: sampling a canvas coordinate whose cell has no event at or before the
\* cutoff finds index 0 in the pixel buffer and answers with Palette[0], and
\* does not fail, whatever the Dataset.
C40_UnsetCellShowsFirstColor ==
    SampledCellUnset =>
        /\ PixelDataAt(tdata, SampledCoord(sample.y, tds.ChunkStride, sample.z),
                              SampledCoord(sample.x, tds.ChunkStride, sample.z)) = 0
        /\ sample.out.kind = "color"
        /\ sample.out.color = tds.Palette[1]

\* The same for a Dataset that holds an event.
UnsetCellShowsFirstColorUnlessEmpty ==
    (SampledCellUnset /\ tds.Palette # << >>) =>
        /\ PixelDataAt(tdata, SampledCoord(sample.y, tds.ChunkStride, sample.z),
                              SampledCoord(sample.x, tds.ChunkStride, sample.z)) = 0
        /\ sample.out = Colored(tds.Palette[1])

====
